---------------------------- MODULE Spec2Model ----------------------------
(***************************************************************************)
(* k8sGO interaction engine.  Three Bubble Tea programs live in the        *)
(* repository:                                                             *)
(*   - the stack-based Model of src/main.go                 (SpecMain)     *)
(*   - the multi-frame Model of src/cmd/k8sgo-web/main.go   (SpecWeb)      *)
(*   - the oc/kubectl App of package ui                     (SpecApp)      *)
(* Each program is a pure Update(model, msg) -> (model, cmd) function run  *)
(* by the Bubble Tea runtime: commands execute off the update loop and     *)
(* their results come back as messages, in any order.                      *)
(***************************************************************************)
EXTENDS Integers, Sequences, FiniteSets, Bags, TLC

VARIABLES
    m,          \* src/main.go Model
    w,          \* src/cmd/k8sgo-web/main.go Model
    kube,       \* current context of the kubeconfig (kubectl config current-context)
    a,          \* package ui: App.state and App.height
    pane,       \* package ui: the text pane and the mouse selection of App.state
    inflight,   \* bag of commands handed to the runtime and still running
    ready,      \* bag of messages of finished App commands, not yet delivered
    ticks,      \* number of pending tea.Tick timers
    quit,       \* tea.Quit has been returned
    quitAsked,  \* history: the user pressed a quit key and did not cancel it
    net,        \* history: forward transitions minus back transitions taken
    issued      \* history: number of fetch commands started so far

vars == <<m, w, kube, a, pane, inflight, ready, ticks, quit, quitAsked, net, issued>>

(***************************************************************************)
(* Bounds of the model.                                                    *)
(***************************************************************************)
MaxItems   == 1   \* longest resource list the provider returns; the user moves
                   \* a list cursor at most this far down
MaxLines   == 1   \* longest log / event list the provider returns; the user
                   \* scrolls a pane at most one past it
MaxFetches == 3   \* fetch commands started in one run of src/main.go
MaxAppFetches == 2 \* fetch commands started in one run of the App
MaxWebFetches == 3 \* commands started in one run of the web program
MaxTicks   == 2   \* pending timers in one run of the web program
MaxNet     == 5   \* cap of the history counter net

Min(x, y) == IF x < y THEN x ELSE y
Max(x, y) == IF x > y THEN x ELSE y

(***************************************************************************)
(* The cluster the provider talks to.                                      *)
(***************************************************************************)
ClusterNamespaces == <<"dev">>
\* terminal heights a WindowSizeMsg reports
Heights == {10}

(***************************************************************************)
(* src/main.go                                                             *)
(***************************************************************************)
\* ResourceType.GetResourceInfo: scope, SupportsLogs, SupportsEvents
GetResourceInfo(rt) ==
    CASE rt = "Nodes"             -> [Scope |-> "ClusterScoped",   SupportsLogs |-> FALSE, SupportsEvents |-> TRUE]
      [] rt = "PersistentVolumes" -> [Scope |-> "ClusterScoped",   SupportsLogs |-> FALSE, SupportsEvents |-> TRUE]
      [] rt = "StorageClasses"    -> [Scope |-> "ClusterScoped",   SupportsLogs |-> FALSE, SupportsEvents |-> FALSE]
      [] rt = "ClusterRoles"      -> [Scope |-> "ClusterScoped",   SupportsLogs |-> FALSE, SupportsEvents |-> FALSE]
      [] rt = "Pods"              -> [Scope |-> "NamespaceScoped", SupportsLogs |-> TRUE,  SupportsEvents |-> TRUE]
      [] rt = "Events"            -> [Scope |-> "NamespaceScoped", SupportsLogs |-> FALSE, SupportsEvents |-> FALSE]
      [] rt \in {"Services", "Deployments", "ConfigMaps", "Secrets", "Ingress",
                 "PersistentVolumeClaims", "ReplicaSets", "DaemonSets",
                 "StatefulSets", "Jobs", "CronJobs"}
                                  -> [Scope |-> "NamespaceScoped", SupportsLogs |-> FALSE, SupportsEvents |-> TRUE]
      [] OTHER                    -> [Scope |-> "NamespaceScoped", SupportsLogs |-> FALSE, SupportsEvents |-> FALSE]

ClusterResourceTypes == <<"Nodes", "PersistentVolumes", "StorageClasses", "ClusterRoles">>
NamespaceResourceTypes ==
    <<"Pods", "Services", "Deployments", "ConfigMaps", "Secrets", "Ingress",
      "PersistentVolumeClaims", "ReplicaSets", "DaemonSets", "StatefulSets",
      "Jobs", "CronJobs", "Events">>

\* a nil *K8sResource
NilResource == [Name |-> 0, Namespace |-> "", ResourceType |-> "nil"]

NoCmd   == [kind |-> "none"]
QuitCmd == [kind |-> "quit"]
TickCmd == [kind |-> "tick"]

\* the closures built by loadNamespaces / loadResources / loadLogs /
\* loadEventsCmd capture the Model by value when the command is created
loadNamespaces(mm) == [kind |-> "namespaces"]
loadResources(mm)  == [kind |-> "resources", rt |-> mm.selectedResource,
                       ns |-> IF GetResourceInfo(mm.selectedResource).Scope = "ClusterScoped"
                              THEN "" ELSE mm.selectedNamespace]
loadLogs(mm)       == [kind |-> "logs", sel |-> mm.selectedK8sResource]
loadEventsCmd(mm)  == [kind |-> "events", sel |-> mm.selectedK8sResource,
                       ns |-> mm.selectedNamespace]

\* main(): the initial Model
InitialModel ==
    [currentView |-> "ClusterOrNamespaceView", cursor |-> 0, viewStack |-> << >>,
     logScrollOffset |-> 0, eventScrollOffset |-> 0,
     namespaces |-> << >>, resourceTypes |-> << >>, resources |-> << >>,
     logEntries |-> << >>, eventEntries |-> << >>,
     selectedNamespace |-> "", selectedResource |-> "Nodes",
     selectedK8sResource |-> NilResource, selectedScope |-> "ClusterScoped",
     height |-> 0, loading |-> FALSE, errorMessage |-> "", autoRefresh |-> TRUE]

\* Model.handleSelection
handleSelection(mm) ==
    CASE mm.currentView = "ClusterOrNamespaceView" ->
           IF mm.cursor = 0
           THEN [m |-> [mm EXCEPT !.viewStack = Append(@, mm.currentView),
                                  !.selectedScope = "ClusterScoped",
                                  !.currentView = "ResourceView",
                                  !.resourceTypes = ClusterResourceTypes,
                                  !.cursor = 0],
                 cmd |-> NoCmd]
           ELSE [m |-> [mm EXCEPT !.viewStack = Append(@, mm.currentView),
                                  !.selectedScope = "NamespaceScoped",
                                  !.currentView = "NamespaceView",
                                  !.loading = TRUE],
                 cmd |-> loadNamespaces(mm)]
      [] mm.currentView = "NamespaceView" ->
           IF Len(mm.namespaces) > 0 /\ mm.cursor < Len(mm.namespaces)
           THEN [m |-> [mm EXCEPT !.selectedNamespace = mm.namespaces[mm.cursor + 1],
                                  !.viewStack = Append(@, mm.currentView),
                                  !.currentView = "ResourceView",
                                  !.cursor = 0,
                                  !.resourceTypes = NamespaceResourceTypes],
                 cmd |-> NoCmd]
           ELSE [m |-> mm, cmd |-> NoCmd]
      [] mm.currentView = "ResourceView" ->
           IF Len(mm.resourceTypes) > 0 /\ mm.cursor < Len(mm.resourceTypes)
           THEN LET m1 == [mm EXCEPT !.selectedResource = mm.resourceTypes[mm.cursor + 1],
                                     !.viewStack = Append(@, mm.currentView),
                                     !.currentView = "DetailView",
                                     !.cursor = 0,
                                     !.loading = TRUE]
                IN [m |-> m1, cmd |-> loadResources(m1)]
           ELSE [m |-> mm, cmd |-> NoCmd]
      [] OTHER -> [m |-> mm, cmd |-> NoCmd]

\* variants of navigateBack that break the stack discipline
navigateBackKeepStack(mm) ==
    IF Len(mm.viewStack) > 0
    THEN [m |-> [mm EXCEPT !.currentView = mm.viewStack[Len(mm.viewStack)],
                           !.cursor = 0],
          cmd |-> NoCmd]
    ELSE [m |-> mm, cmd |-> NoCmd]

navigateBackToTypes(mm) ==
    IF Len(mm.viewStack) > 0
    THEN [m |-> [mm EXCEPT !.currentView = mm.viewStack[Len(mm.viewStack)],
                           !.viewStack = SubSeq(@, 1, Len(@) - 1),
                           !.cursor = 0],
          cmd |-> NoCmd]
    ELSE [m |-> [mm EXCEPT !.currentView = "ResourceView"], cmd |-> NoCmd]

\* Model.navigateBack
navigateBack(mm) ==
    IF Len(mm.viewStack) > 0
    THEN [m |-> [mm EXCEPT !.currentView = mm.viewStack[Len(mm.viewStack)],
                           !.viewStack = SubSeq(@, 1, Len(@) - 1),
                           !.cursor = 0,
                           !.logScrollOffset = 0,
                           !.eventScrollOffset = 0,
                           !.errorMessage = ""],
          cmd |-> NoCmd]
    ELSE [m |-> mm, cmd |-> NoCmd]

\* maxScroll of the log / event pane as "down" computes it
maxScroll(lineCount, height) == Max(0, lineCount - (height - 10))

\* Model.handleKeyPress, case "up", "k"
keyUp(mm) ==
    IF mm.currentView = "LogView"
    THEN [mm EXCEPT !.logScrollOffset = IF @ > 0 THEN @ - 1 ELSE @]
    ELSE IF mm.currentView = "EventView"
    THEN [mm EXCEPT !.eventScrollOffset = IF @ > 0 THEN @ - 1 ELSE @]
    ELSE [mm EXCEPT !.cursor = IF @ > 0 THEN @ - 1 ELSE @]

\* Model.handleKeyPress, case "down", "j"
keyDown(mm) ==
    IF mm.currentView = "LogView"
    THEN [mm EXCEPT !.logScrollOffset =
              IF @ < maxScroll(Len(mm.logEntries), mm.height) THEN @ + 1 ELSE @]
    ELSE IF mm.currentView = "EventView"
    THEN [mm EXCEPT !.eventScrollOffset =
              IF @ < maxScroll(Len(mm.eventEntries), mm.height) THEN @ + 1 ELSE @]
    ELSE LET limit == CASE mm.currentView = "ClusterOrNamespaceView" -> 1
                        [] mm.currentView = "NamespaceView" -> Len(mm.namespaces) - 1
                        [] mm.currentView = "ResourceView"  -> Len(mm.resourceTypes) - 1
                        [] mm.currentView = "DetailView"    -> Len(mm.resources) - 1
                        [] OTHER -> 0
         IN [mm EXCEPT !.cursor = IF @ < limit THEN @ + 1 ELSE @]

\* Model.handleKeyPress, case "l"
keyLogs(mm) ==
    IF /\ mm.currentView = "DetailView"
       /\ Len(mm.resources) > 0
       /\ mm.cursor < Len(mm.resources)
       /\ GetResourceInfo(mm.resources[mm.cursor + 1].ResourceType).SupportsLogs
    THEN LET m1 == [mm EXCEPT !.selectedK8sResource = mm.resources[mm.cursor + 1],
                              !.viewStack = Append(@, mm.currentView),
                              !.currentView = "LogView",
                              !.cursor = 0,
                              !.logScrollOffset = 0,
                              !.loading = TRUE]
         IN [m |-> m1, cmd |-> loadLogs(m1)]
    ELSE [m |-> mm, cmd |-> NoCmd]

\* Model.handleKeyPress, case "e"
keyEvents(mm) ==
    IF /\ mm.currentView = "DetailView"
       /\ Len(mm.resources) > 0
       /\ mm.cursor < Len(mm.resources)
       /\ GetResourceInfo(mm.resources[mm.cursor + 1].ResourceType).SupportsEvents
    THEN LET m1 == [mm EXCEPT !.selectedK8sResource = mm.resources[mm.cursor + 1],
                              !.viewStack = Append(@, mm.currentView),
                              !.currentView = "EventView",
                              !.cursor = 0,
                              !.eventScrollOffset = 0,
                              !.loading = TRUE]
         IN [m |-> m1, cmd |-> loadEventsCmd(m1)]
    ELSE [m |-> mm, cmd |-> NoCmd]

\* Model.handleKeyPress, case "r"
keyRefresh(mm) ==
    CASE mm.currentView = "NamespaceView" ->
           [m |-> [mm EXCEPT !.loading = TRUE], cmd |-> loadNamespaces(mm)]
      [] mm.currentView = "DetailView" ->
           [m |-> [mm EXCEPT !.loading = TRUE], cmd |-> loadResources(mm)]
      [] mm.currentView = "LogView" /\ mm.selectedK8sResource # NilResource ->
           [m |-> [mm EXCEPT !.loading = TRUE], cmd |-> loadLogs(mm)]
      [] mm.currentView = "EventView" ->
           [m |-> [mm EXCEPT !.loading = TRUE], cmd |-> loadEventsCmd(mm)]
      [] OTHER -> [m |-> mm, cmd |-> NoCmd]

Keys == {"q", "up", "down", "enter", "esc", "l", "e", "r", "a"}

\* Model.handleKeyPress
handleKeyPress(mm, key) ==
    CASE key = "q"     -> [m |-> mm, cmd |-> QuitCmd]
      [] key = "up"    -> [m |-> keyUp(mm), cmd |-> NoCmd]
      [] key = "down"  -> [m |-> keyDown(mm), cmd |-> NoCmd]
      [] key = "enter" -> handleSelection(mm)
      [] key = "esc"   -> navigateBack(mm)
      [] key = "l"     -> keyLogs(mm)
      [] key = "e"     -> keyEvents(mm)
      [] key = "r"     -> keyRefresh(mm)
      [] key = "a"     -> [m |-> [mm EXCEPT !.autoRefresh = ~@], cmd |-> NoCmd]
      [] OTHER         -> [m |-> mm, cmd |-> NoCmd]

\* a variant of the refreshMsg case that reloads the resource list in every
\* view that is not a log or event view
onRefreshMsgAnyView(mm) ==
    IF mm.autoRefresh /\ mm.currentView = "LogView"
    THEN [m |-> mm, cmd |-> loadLogs(mm)]
    ELSE IF mm.autoRefresh /\ mm.currentView = "EventView"
    THEN [m |-> mm, cmd |-> loadEventsCmd(mm)]
    ELSE IF mm.autoRefresh
    THEN [m |-> mm, cmd |-> loadResources(mm)]
    ELSE [m |-> mm, cmd |-> TickCmd]

\* Model.Update, case refreshMsg
onRefreshMsg(mm) ==
    IF mm.autoRefresh /\ mm.currentView = "DetailView"
    THEN [m |-> mm, cmd |-> loadResources(mm)]
    ELSE IF mm.autoRefresh /\ mm.currentView = "LogView"
    THEN [m |-> mm, cmd |-> loadLogs(mm)]
    ELSE IF mm.autoRefresh /\ mm.currentView = "EventView"
    THEN [m |-> mm, cmd |-> loadEventsCmd(mm)]
    ELSE [m |-> mm, cmd |-> TickCmd]

\* a variant of the ...LoadedMsg cases that adds the fetched resources to the
\* list it holds
onLoadedMsgMerging(mm, msg) ==
    LET m1 == [mm EXCEPT !.loading = FALSE]
    IN IF msg.err
       THEN [m1 EXCEPT !.errorMessage = msg.type]
       ELSE CASE msg.type = "namespacesLoadedMsg" ->
                   [m1 EXCEPT !.namespaces = msg.data, !.errorMessage = ""]
              [] msg.type = "resourcesLoadedMsg" ->
                   [m1 EXCEPT !.resources = @ \o msg.data, !.errorMessage = ""]
              [] msg.type = "logsLoadedMsg" ->
                   [m1 EXCEPT !.logEntries = msg.data, !.errorMessage = ""]
              [] msg.type = "eventsLoadedMsg" ->
                   [m1 EXCEPT !.eventEntries = msg.data, !.errorMessage = ""]

\* Model.Update, the four ...LoadedMsg cases
onLoadedMsg(mm, msg) ==
    LET m1 == [mm EXCEPT !.loading = FALSE]
    IN IF msg.err
       THEN [m1 EXCEPT !.errorMessage = msg.type]
       ELSE CASE msg.type = "namespacesLoadedMsg" ->
                   [m1 EXCEPT !.namespaces = msg.data, !.errorMessage = ""]
              [] msg.type = "resourcesLoadedMsg" ->
                   [m1 EXCEPT !.resources = msg.data, !.errorMessage = ""]
              [] msg.type = "logsLoadedMsg" ->
                   [m1 EXCEPT !.logEntries = msg.data, !.errorMessage = ""]
              [] msg.type = "eventsLoadedMsg" ->
                   [m1 EXCEPT !.eventEntries = msg.data, !.errorMessage = ""]

\* Model.Update
Update(mm, msg) ==
    CASE msg.type = "WindowSizeMsg" -> [m |-> [mm EXCEPT !.height = msg.height], cmd |-> NoCmd]
      [] msg.type = "KeyMsg"        -> handleKeyPress(mm, msg.key)
      [] msg.type = "refreshMsg"    -> onRefreshMsg(mm)
      [] OTHER                      -> [m |-> onLoadedMsg(mm, msg), cmd |-> NoCmd]

(***************************************************************************)
(* The provider: what a command can come back with.                        *)
(***************************************************************************)
ResourceList(rt, ns, n) ==
    [i \in 1..n |-> [Name |-> i, Namespace |-> ns, ResourceType |-> rt]]

EntryList(sel, n) == [i \in 1..n |-> [of |-> sel.Name, ns |-> sel.Namespace, line |-> i]]

\* the message a command of src/main.go resolves to
Results(c) ==
    CASE c.kind = "namespaces" ->
           {[type |-> "namespacesLoadedMsg", err |-> TRUE, data |-> << >>]} \cup
           {[type |-> "namespacesLoadedMsg", err |-> FALSE,
             data |-> SubSeq(ClusterNamespaces, 1, n)] : n \in 0..Len(ClusterNamespaces)}
      [] c.kind = "resources" ->
           {[type |-> "resourcesLoadedMsg", err |-> TRUE, data |-> << >>]} \cup
           {[type |-> "resourcesLoadedMsg", err |-> FALSE,
             data |-> ResourceList(c.rt, c.ns, n)] : n \in 0..MaxItems}
      [] c.kind = "logs" ->
           IF c.sel = NilResource \/ c.sel.ResourceType # "Pods"
           THEN {[type |-> "logsLoadedMsg", err |-> TRUE, data |-> << >>]}
           ELSE {[type |-> "logsLoadedMsg", err |-> TRUE, data |-> << >>]} \cup
                {[type |-> "logsLoadedMsg", err |-> FALSE,
                  data |-> EntryList(c.sel, n)] : n \in 0..MaxLines}
      [] c.kind = "events" ->
           {[type |-> "eventsLoadedMsg", err |-> TRUE, data |-> << >>]} \cup
           {[type |-> "eventsLoadedMsg", err |-> FALSE,
             data |-> EntryList(c.sel, n)] : n \in 0..MaxLines}

(***************************************************************************)
(* package ui: the App (app.go, handlers.go, feedback.go).                 *)
(***************************************************************************)
PageSize == 50

\* zero value of types.Resource
NoResource == [Name |-> 0, Type |-> ""]

\* NewApp: the AppState after construction (height is App.height)
InitialState ==
    [CurrentView |-> "ResourceView", ResourceType |-> "pods", Resources |-> << >>,
     SelectedIndex |-> 0, CurrentPage |-> 0, TotalItems |-> 0, TotalPages |-> 0,
     SelectedResource |-> NoResource,
     PreviousView |-> "ResourceView", PreviousResource |-> "",
     DescribeOutput |-> 0, DescribeScrollOffset |-> 0, LogsScrollOffset |-> 0,
     StatusMessage |-> "", SelectionActive |-> FALSE, SelectedText |-> "",
     FeedbackText |-> "", FeedbackSubmitting |-> FALSE, height |-> 0,
     Tool |-> "oc"]

\* Go's integer division truncates toward zero
GoDiv(x, y) == IF x >= 0 THEN x \div y ELSE -((-x) \div y)

\* the CLI tools App.initialize can detect
Tools == {"oc", "kubectl"}

\* a variant of getAvailableResourceTypes that keeps the list of the oc tool
getAvailableResourceTypesCached(aa) ==
    <<"pods", "services", "deployments", "pvc", "is", "secrets", "configmaps", "events">>

\* App.getAvailableResourceTypes
getAvailableResourceTypes(aa) ==
    <<"pods", "services", "deployments", "pvc">>
    \o (IF aa.Tool = "oc" THEN <<"is">> ELSE << >>)
    \o <<"secrets", "configmaps", "events">>

\* the display name fetchResources gives each resource type
ResourceTypeName(rt) ==
    CASE rt = "services"    -> "Services"
      [] rt = "deployments" -> "Deployments"
      [] rt = "pvc"         -> "PersistentVolumeClaims"
      [] rt = "is"          -> "ImageStreams"
      [] rt = "secrets"     -> "Secrets"
      [] rt = "configmaps"  -> "ConfigMaps"
      [] rt = "events"      -> "Events"
      [] OTHER              -> "Pods"

\* App.fetchResources, run against the state aa it reads when it executes:
\* the provider fails, returns nothing, or returns n records
fetchResources(aa) ==
    {[type |-> "resourcesMsg", resources |-> <<[Name |-> 0, Type |-> "Error"]>>]} \cup
    {[type |-> "resourcesMsg", resources |-> <<[Name |-> 0, Type |-> "Info"]>>]} \cup
    {[type |-> "resourcesMsg",
      resources |-> [i \in 1..n |-> [Name |-> i, Type |-> ResourceTypeName(aa.ResourceType)]]]
       : n \in 1..MaxItems}

\* App.fetchResourceDescription: the output as its number of lines (0: empty
\* output; a failure gives the one line "Error describing ...")
fetchResourceDescription(aa) ==
    {[type |-> "describeMsg", output |-> n] : n \in 0..MaxLines}

\* App.submitFeedback
submitFeedback(aa) ==
    {[type |-> "FeedbackSubmittedMsg", success |-> ok] : ok \in BOOLEAN}

\* the message a running App command resolves to
AppResults(aa, c) ==
    CASE c.kind = "fetchResources"           -> fetchResources(aa)
      [] c.kind = "fetchResourceDescription" -> fetchResourceDescription(aa)
      [] c.kind = "submitFeedback"           -> submitFeedback(aa)
      [] OTHER                               -> {[type |-> "logsMsg"]}

FetchResourcesCmd == [kind |-> "fetchResources"]
DescribeCmd       == [kind |-> "fetchResourceDescription"]
PodLogsCmd        == [kind |-> "fetchPodLogs"]
SubmitCmd         == [kind |-> "submitFeedback"]
CopyCmd           == [kind |-> "copy"]

\* App.clearStatusMessage
clearStatusMessage(aa) ==
    [aa EXCEPT !.StatusMessage = IF @ = "Copied" THEN @ ELSE "",
               !.SelectedText = IF aa.SelectionActive THEN @ ELSE ""]

\* the "q" case of every key handler: show the feedback form
showFeedbackForm(aa) ==
    [a |-> [aa EXCEPT !.CurrentView = "FeedbackView", !.FeedbackText = "",
                      !.FeedbackSubmitting = FALSE],
     cmd |-> NoCmd]

\* App.handleDownNavigation
handleDownNavigation(aa) ==
    IF Len(aa.Resources) > 0 /\ aa.SelectedIndex < Len(aa.Resources) - 1
    THEN LET idx == aa.SelectedIndex + 1
         IN [aa EXCEPT !.SelectedIndex = idx,
                       !.CurrentPage = IF idx > aa.CurrentPage * PageSize + PageSize - 1
                                       THEN @ + 1 ELSE @]
    ELSE aa

\* App.handleUpNavigation
handleUpNavigation(aa) ==
    IF Len(aa.Resources) > 0 /\ aa.SelectedIndex > 0
    THEN LET idx == aa.SelectedIndex - 1
         IN [aa EXCEPT !.SelectedIndex = idx,
                       !.CurrentPage = IF idx < aa.CurrentPage * PageSize THEN @ - 1 ELSE @]
    ELSE aa

\* variants of paginateResources with a slip in the page arithmetic
paginateResourcesFloor(aa) ==
    LET totalItems == Len(aa.Resources)
        totalPages == Max(1, GoDiv(totalItems, PageSize))
        start      == aa.CurrentPage * PageSize
        end        == Min(start + PageSize, totalItems)
    IN [Items |-> IF start >= totalItems THEN << >> ELSE SubSeq(aa.Resources, start + 1, end),
        CurrentPage |-> aa.CurrentPage, TotalPages |-> totalPages, TotalItems |-> totalItems,
        HasNext |-> start < totalItems /\ aa.CurrentPage < totalPages - 1,
        HasPrev |-> aa.CurrentPage > 0]

paginateResourcesShifted(aa) ==
    LET totalItems == Len(aa.Resources)
        totalPages == Max(1, GoDiv(totalItems + PageSize - 1, PageSize))
        start      == aa.CurrentPage * PageSize + 1
        end        == Min(start + PageSize, totalItems)
    IN [Items |-> IF start >= totalItems THEN << >> ELSE SubSeq(aa.Resources, start + 1, end),
        CurrentPage |-> aa.CurrentPage, TotalPages |-> totalPages, TotalItems |-> totalItems,
        HasNext |-> start < totalItems /\ aa.CurrentPage < totalPages - 1,
        HasPrev |-> aa.CurrentPage > 0]

\* App.paginateResources: the page window [start, end) of Resources
paginateResources(aa) ==
    LET totalItems == Len(aa.Resources)
        pages      == GoDiv(totalItems + PageSize - 1, PageSize)
        totalPages == IF pages = 0 THEN 1 ELSE pages
        start      == aa.CurrentPage * PageSize
        end        == IF start + PageSize > totalItems THEN totalItems ELSE start + PageSize
    IN IF start >= totalItems
       THEN [Items |-> << >>, CurrentPage |-> aa.CurrentPage, TotalPages |-> totalPages,
             TotalItems |-> totalItems, HasNext |-> FALSE, HasPrev |-> aa.CurrentPage > 0]
       ELSE [Items |-> SubSeq(aa.Resources, start + 1, end),
             CurrentPage |-> aa.CurrentPage, TotalPages |-> totalPages,
             TotalItems |-> totalItems,
             HasNext |-> aa.CurrentPage < totalPages - 1,
             HasPrev |-> aa.CurrentPage > 0]

\* App.handleLeftNavigation
handleLeftNavigation(aa) ==
    IF aa.CurrentPage > 0 THEN [aa EXCEPT !.CurrentPage = @ - 1] ELSE aa

\* App.handleRightNavigation
handleRightNavigation(aa) ==
    IF paginateResources(aa).HasNext THEN [aa EXCEPT !.CurrentPage = @ + 1] ELSE aa

\* a variant of handleBackNavigation that restores the resource type without
\* fetching its list
handleBackNavigationQuiet(aa) ==
    IF aa.CurrentView # "ResourceView"
    THEN LET a1 == IF aa.PreviousView # aa.CurrentView
                   THEN [aa EXCEPT !.PreviousView = aa.CurrentView,
                                   !.CurrentView = aa.PreviousView]
                   ELSE [aa EXCEPT !.PreviousView = aa.CurrentView,
                                   !.CurrentView = "ResourceView"]
         IN IF a1.CurrentView = "ResourceView" /\ a1.PreviousResource # ""
            THEN [a |-> [a1 EXCEPT !.PreviousResource = a1.ResourceType,
                                   !.ResourceType = a1.PreviousResource,
                                   !.CurrentPage = 0,
                                   !.SelectedIndex = 0],
                  cmd |-> NoCmd]
            ELSE [a |-> a1, cmd |-> NoCmd]
    ELSE [a |-> aa, cmd |-> NoCmd]

\* App.handleBackNavigation
handleBackNavigation(aa) ==
    IF aa.CurrentView # "ResourceView"
    THEN LET a1 == IF aa.PreviousView # aa.CurrentView
                   THEN [aa EXCEPT !.PreviousView = aa.CurrentView,
                                   !.CurrentView = aa.PreviousView]
                   ELSE [aa EXCEPT !.PreviousView = aa.CurrentView,
                                   !.CurrentView = "ResourceView"]
         IN IF a1.CurrentView = "ResourceView" /\ a1.PreviousResource # ""
            THEN [a |-> [a1 EXCEPT !.PreviousResource = a1.ResourceType,
                                   !.ResourceType = a1.PreviousResource,
                                   !.CurrentPage = 0,
                                   !.SelectedIndex = 0],
                  cmd |-> FetchResourcesCmd]
            ELSE [a |-> a1, cmd |-> NoCmd]
    ELSE [a |-> aa, cmd |-> NoCmd]

\* App.handleResourceTypeSwitch
handleResourceTypeSwitch(aa, resourceType) ==
    [a |-> [aa EXCEPT !.PreviousResource = aa.ResourceType,
                      !.PreviousView = aa.CurrentView,
                      !.ResourceType = resourceType,
                      !.CurrentPage = 0,
                      !.SelectedIndex = 0],
     cmd |-> FetchResourcesCmd]

\* App.handleResourceTypeSwitchByIndex, key "1".."8" given as index 0..7
handleResourceTypeSwitchByIndex(aa, index) ==
    IF index >= 0 /\ index < Len(getAvailableResourceTypes(aa))
    THEN handleResourceTypeSwitch(aa, getAvailableResourceTypes(aa)[index + 1])
    ELSE [a |-> aa, cmd |-> NoCmd]

\* App.handleContextSwitch; ok: contextSelector.LoadContexts succeeded
handleContextSwitch(aa, ok) ==
    IF ok
    THEN [a |-> [aa EXCEPT !.PreviousView = aa.CurrentView, !.CurrentView = "ContextView"],
          cmd |-> NoCmd]
    ELSE [a |-> aa, cmd |-> NoCmd]

\* a variant of handleDescribeResource that opens whatever record is selected
handleDescribeResourceAny(aa) ==
    IF Len(aa.Resources) = 0
    THEN [a |-> aa, cmd |-> NoCmd]
    ELSE LET a1  == IF aa.SelectedIndex >= Len(aa.Resources) \/ aa.SelectedIndex < 0
                    THEN [aa EXCEPT !.SelectedIndex = 0] ELSE aa
         IN [a |-> [a1 EXCEPT !.SelectedResource = a1.Resources[a1.SelectedIndex + 1],
                              !.PreviousView = a1.CurrentView,
                              !.CurrentView = "DescribeView",
                              !.DescribeScrollOffset = 0],
             cmd |-> DescribeCmd]

\* App.handleDescribeResource
handleDescribeResource(aa) ==
    IF Len(aa.Resources) = 0
    THEN [a |-> aa, cmd |-> NoCmd]
    ELSE LET a1  == IF aa.SelectedIndex >= Len(aa.Resources) \/ aa.SelectedIndex < 0
                    THEN [aa EXCEPT !.SelectedIndex = 0] ELSE aa
             sel == a1.Resources[a1.SelectedIndex + 1]
         IN IF sel.Type \in {"Info", "Error"}
            THEN [a |-> a1, cmd |-> NoCmd]
            ELSE [a |-> [a1 EXCEPT !.SelectedResource = sel,
                                   !.PreviousView = a1.CurrentView,
                                   !.CurrentView = "DescribeView",
                                   !.DescribeScrollOffset = 0],
                  cmd |-> DescribeCmd]

\* App.handleShowLogs
handleShowLogs(aa) ==
    IF Len(aa.Resources) = 0
    THEN [a |-> [aa EXCEPT !.StatusMessage = "Loading resources..."],
          cmd |-> FetchResourcesCmd]
    ELSE LET a1 == IF aa.SelectedIndex >= Len(aa.Resources)
                   THEN [aa EXCEPT !.SelectedIndex = 0] ELSE aa
         IN IF a1.ResourceType # "pods"
            THEN [a |-> [a1 EXCEPT !.ResourceType = "pods",
                                   !.CurrentPage = 0,
                                   !.SelectedIndex = 0,
                                   !.StatusMessage = "Switching to pods view for logs..."],
                  cmd |-> FetchResourcesCmd]
            ELSE LET sel == a1.Resources[a1.SelectedIndex + 1]
                 IN IF sel.Type \in {"Info", "Error"}
                    THEN [a |-> [a1 EXCEPT !.StatusMessage = "No valid pod selected for logs"],
                          cmd |-> NoCmd]
                    ELSE [a |-> [a1 EXCEPT !.SelectedResource = sel,
                                           !.PreviousView = a1.CurrentView,
                                           !.CurrentView = "LogsView",
                                           !.LogsScrollOffset = 0,
                                           !.StatusMessage = "Loading logs for pod"],
                          cmd |-> PodLogsCmd]

\* App.getDescribeViewHeight
getDescribeViewHeight(aa) == aa.height - 8

\* App.getMaxDescribeScroll
getMaxDescribeScroll(aa) ==
    IF aa.DescribeOutput = 0
    THEN 0
    ELSE Max(0, aa.DescribeOutput - getDescribeViewHeight(aa) + 2)

\* App.scrollDescribeDown
scrollDescribeDown(aa) ==
    [aa EXCEPT !.DescribeScrollOffset = IF @ < getMaxDescribeScroll(aa) THEN @ + 1 ELSE @]

\* App.scrollDescribeUp
scrollDescribeUp(aa) ==
    [aa EXCEPT !.DescribeScrollOffset = IF @ > 0 THEN @ - 1 ELSE @]

\* App.pageDescribeDown
pageDescribeDown(aa) ==
    LET pageSize == Max(1, GoDiv(getDescribeViewHeight(aa), 2))
    IN [aa EXCEPT !.DescribeScrollOffset = Min(@ + pageSize, getMaxDescribeScroll(aa))]

\* App.pageDescribeUp
pageDescribeUp(aa) ==
    LET pageSize == Max(1, GoDiv(getDescribeViewHeight(aa), 2))
    IN [aa EXCEPT !.DescribeScrollOffset = Max(@ - pageSize, 0)]

\* App.scrollDescribeToBottom
scrollDescribeToBottom(aa) ==
    [aa EXCEPT !.DescribeScrollOffset = getMaxDescribeScroll(aa)]

\* App.handleCopyContent: the content copied is the selection, else the
\* whole content of the view (LogsOutput is never set by App.Update)
handleCopyContent(aa) ==
    LET bySelection == aa.SelectionActive /\ aa.SelectedText # ""
        hasContent ==
            \/ bySelection
            \/ aa.CurrentView = "ResourceView" /\ Len(aa.Resources) > 0
                  /\ aa.SelectedIndex < Len(aa.Resources)
            \/ aa.CurrentView = "DescribeView" /\ aa.DescribeOutput # 0
    IN IF hasContent
       THEN [a |-> [aa EXCEPT !.StatusMessage = "Copied", !.SelectionActive = FALSE,
                              !.SelectedText = ""],
             cmd |-> CopyCmd]
       ELSE [a |-> [aa EXCEPT !.StatusMessage = "No content to copy"], cmd |-> NoCmd]

\* App.handleDescribeViewKeys
handleDescribeViewKeys(aa, key) ==
    CASE key = "q"      -> showFeedbackForm(aa)
      [] key = "ctrl+c" -> [a |-> aa, cmd |-> QuitCmd]
      [] key \in {"esc", "backspace"} ->
           [a |-> [aa EXCEPT !.DescribeScrollOffset = 0, !.CurrentView = "ResourceView"],
            cmd |-> NoCmd]
      [] key = "down"   -> [a |-> scrollDescribeDown(aa), cmd |-> NoCmd]
      [] key = "up"     -> [a |-> scrollDescribeUp(aa), cmd |-> NoCmd]
      [] key = "ctrl+d" -> [a |-> pageDescribeDown(aa), cmd |-> NoCmd]
      [] key = "ctrl+u" -> [a |-> pageDescribeUp(aa), cmd |-> NoCmd]
      [] key = "g"      -> [a |-> [aa EXCEPT !.DescribeScrollOffset = 0], cmd |-> NoCmd]
      [] key = "G"      -> [a |-> scrollDescribeToBottom(aa), cmd |-> NoCmd]
      [] key = "x"      -> handleCopyContent(aa)
      [] key = "L"      -> handleShowLogs(aa)
      [] OTHER          -> [a |-> aa, cmd |-> NoCmd]

\* App.handleLogsViewKeys; LogsOutput stays empty, so getMaxLogsScroll is 0
\* and the scroll keys leave LogsScrollOffset at 0
handleLogsViewKeys(aa, key) ==
    CASE key = "q"      -> showFeedbackForm(aa)
      [] key = "ctrl+c" -> [a |-> aa, cmd |-> QuitCmd]
      [] key \in {"esc", "backspace"} ->
           [a |-> [aa EXCEPT !.LogsScrollOffset = 0, !.CurrentView = "ResourceView"],
            cmd |-> NoCmd]
      [] key = "x"      -> handleCopyContent(aa)
      [] OTHER          -> [a |-> aa, cmd |-> NoCmd]

\* App.handleContextViewKeys (without "enter")
handleContextViewKeys(aa, key) ==
    CASE key = "q"      -> showFeedbackForm(aa)
      [] key = "ctrl+c" -> [a |-> aa, cmd |-> QuitCmd]
      [] key = "esc"    -> [a |-> [aa EXCEPT !.CurrentView = "ResourceView"], cmd |-> NoCmd]
      [] OTHER          -> [a |-> aa, cmd |-> NoCmd]

\* keys whose name is one character: the feedback form inserts them as text
PrintableKeys == {"q", "?", "r", "1", "2", "3", "4", "5", "6", "7", "8", "i", "L", "x"}

\* App.handleFeedbackViewKeys; "submit" is ctrl+enter or f1; the feedback text
\* is kept as "" (blank) or "x" (some text)
handleFeedbackViewKeys(aa, key) ==
    IF aa.FeedbackSubmitting
    THEN [a |-> aa, cmd |-> NoCmd]
    ELSE LET a1 == [aa EXCEPT !.StatusMessage = "Key"]
         IN CASE key = "submit" ->
                   IF a1.FeedbackText # ""
                   THEN [a |-> [a1 EXCEPT !.FeedbackSubmitting = TRUE,
                                          !.StatusMessage = "Submitting feedback..."],
                         cmd |-> SubmitCmd]
                   ELSE [a |-> [a1 EXCEPT !.StatusMessage = "No feedback text, quitting..."],
                         cmd |-> QuitCmd]
              [] key = "ctrl+c" ->
                   [a |-> [a1 EXCEPT !.CurrentView = "ResourceView", !.FeedbackText = ""],
                    cmd |-> NoCmd]
              [] key = "esc" -> [a |-> a1, cmd |-> QuitCmd]
              [] key = "backspace" -> [a |-> [a1 EXCEPT !.FeedbackText = ""], cmd |-> NoCmd]
              [] key \in PrintableKeys ->
                   [a |-> [a1 EXCEPT !.FeedbackText = "x"], cmd |-> NoCmd]
              [] OTHER -> [a |-> a1, cmd |-> NoCmd]

\* views in which a left click starts a text selection
SelectableViews ==
    {"DescribeView", "YamlView", "TagsView", "TopView", "EventsView", "ResourcesView",
     "DiagramView"}

\* App.handleMouseClick for a click at column 0 of row 3, the first content
\* row of a pane (above the table header and the rows of the resource table)
handleMouseClick(aa) ==
    IF aa.CurrentView \in SelectableViews
    THEN [aa EXCEPT !.SelectionActive = TRUE, !.SelectedText = "",
                    !.StatusMessage = "Click and drag to select text"]
    ELSE aa

\* App.extractSelectedText for a selection started at column 0 of row 3 and
\* ended there (dragged = FALSE) or one column to the right; every line of
\* a describe output is the text "x".  extractTextFromDescribeView takes the
\* line shown on row 3, which is line DescribeScrollOffset.
extractSelectedText(aa, dragged) ==
    IF ~aa.SelectionActive \/ ~dragged
    THEN ""
    ELSE IF aa.CurrentView = "DescribeView" /\ aa.DescribeScrollOffset < aa.DescribeOutput
         THEN "x" ELSE ""

\* App.handleMouseRelease
handleMouseRelease(aa, dragged) ==
    IF aa.SelectionActive
    THEN LET text == extractSelectedText(aa, dragged)
         IN IF text = ""
            THEN [aa EXCEPT !.SelectedText = "", !.SelectionActive = FALSE,
                            !.StatusMessage = "No text selected"]
            ELSE [aa EXCEPT !.SelectedText = text, !.StatusMessage = "Selected"]
    ELSE aa

MouseEvents == {"click", "release", "drag"}

\* App.handleMouseEvent: MouseLeft ("click") and MouseRelease ("release" at
\* the cell of the click, "drag" one column to its right)
handleMouseEvent(aa, ev) ==
    IF ev = "click"
    THEN handleMouseClick([aa EXCEPT !.StatusMessage = "Mouse click at"])
    ELSE handleMouseRelease([aa EXCEPT !.StatusMessage = "Mouse release at"], ev = "drag")

AppKeys ==
    {"q", "ctrl+c", "?", "esc", "down", "up", "r", "backspace", "1", "2", "i", "L", "x",
     "submit"}

\* App.handleKeyPress; ok: a synchronous provider call the key makes succeeds
AppHandleKeyPress(aa, key, ok) ==
    LET a0 == IF key # "x" THEN clearStatusMessage(aa) ELSE aa
    IN CASE a0.CurrentView = "ContextView"  -> handleContextViewKeys(a0, key)
         [] a0.CurrentView = "DescribeView" -> handleDescribeViewKeys(a0, key)
         [] a0.CurrentView = "LogsView"     -> handleLogsViewKeys(a0, key)
         [] a0.CurrentView = "FeedbackView" -> handleFeedbackViewKeys(a0, key)
         [] OTHER ->
            CASE key = "q"      -> showFeedbackForm(a0)
              [] key = "ctrl+c" -> [a |-> a0, cmd |-> QuitCmd]
              [] key = "?"      ->
                   [a |-> [a0 EXCEPT !.CurrentView = IF @ = "HelpView" THEN "ResourceView"
                                                     ELSE "HelpView"],
                    cmd |-> NoCmd]
              [] key = "esc"    ->
                   IF a0.CurrentView \in {"HelpView", "DescribeView"}
                   THEN [a |-> [a0 EXCEPT !.CurrentView = "ResourceView"], cmd |-> NoCmd]
                   ELSE handleContextSwitch(a0, ok)
              [] key = "down"   -> [a |-> handleDownNavigation(a0), cmd |-> NoCmd]
              [] key = "up"     -> [a |-> handleUpNavigation(a0), cmd |-> NoCmd]
              [] key = "left"   -> [a |-> handleLeftNavigation(a0), cmd |-> NoCmd]
              [] key = "right"  -> [a |-> handleRightNavigation(a0), cmd |-> NoCmd]
              [] key = "r"      -> [a |-> a0, cmd |-> FetchResourcesCmd]
              [] key = "backspace" -> handleBackNavigation(a0)
              [] key = "1"      -> handleResourceTypeSwitchByIndex(a0, 0)
              [] key = "2"      -> handleResourceTypeSwitchByIndex(a0, 1)
              [] key = "3"      -> handleResourceTypeSwitchByIndex(a0, 2)
              [] key = "4"      -> handleResourceTypeSwitchByIndex(a0, 3)
              [] key = "5"      -> handleResourceTypeSwitchByIndex(a0, 4)
              [] key = "6"      -> handleResourceTypeSwitchByIndex(a0, 5)
              [] key = "7"      -> handleResourceTypeSwitchByIndex(a0, 6)
              [] key = "8"      -> handleResourceTypeSwitchByIndex(a0, 7)
              [] key = "i"      -> handleDescribeResource(a0)
              [] key = "L"      -> handleShowLogs(a0)
              [] key = "x"      -> handleCopyContent(a0)
              [] OTHER          -> [a |-> a0, cmd |-> NoCmd]

\* a variant of the resourcesMsg case that gives up on a failed fetch
onResourcesMsgFatal(aa, msg) ==
    [a |-> [aa EXCEPT !.Resources = msg.resources],
     cmd |-> IF msg.resources[1].Type = "Error" THEN QuitCmd ELSE NoCmd]

\* App.Update, case resourcesMsg
onResourcesMsg(aa, msg) ==
    [a |-> [aa EXCEPT !.Resources = msg.resources,
                      !.TotalItems = Len(msg.resources),
                      !.TotalPages = GoDiv(Len(msg.resources) + PageSize - 1, PageSize)],
     cmd |-> NoCmd]

\* App.Update
AppUpdate(aa, msg) ==
    CASE msg.type = "WindowSizeMsg" -> [a |-> [aa EXCEPT !.height = msg.height], cmd |-> NoCmd]
      [] msg.type = "KeyMsg"        -> AppHandleKeyPress(aa, msg.key, msg.ok)
      [] msg.type = "MouseMsg"      -> [a |-> handleMouseEvent(aa, msg.ev), cmd |-> NoCmd]
      [] msg.type = "TickMsg"       -> [a |-> aa, cmd |-> TickCmd]
      [] msg.type = "resourcesMsg"  -> onResourcesMsg(aa, msg)
      [] msg.type = "describeMsg"   ->
           [a |-> [aa EXCEPT !.DescribeOutput = msg.output], cmd |-> NoCmd]
      [] msg.type = "FeedbackSubmittedMsg" ->
           [a |-> [aa EXCEPT !.FeedbackSubmitting = FALSE], cmd |-> QuitCmd]
      [] OTHER                      -> [a |-> aa, cmd |-> NoCmd]

(***************************************************************************)
(* src/cmd/k8sgo-web/main.go: the multi-frame Model.                       *)
(***************************************************************************)
\* contexts of the kubeconfig, sorted; the cluster is plain Kubernetes
KubeContexts == <<"ctx-a", "ctx-b">>
ClusterIsOpenShift == FALSE

\* ResourceType.GetResourceInfo of the web program
WebGetResourceInfo(rt) ==
    CASE rt \in {"Nodes", "PersistentVolumes", "Projects"}
                        -> [Scope |-> "ClusterScoped",   SupportsLogs |-> FALSE, SupportsEvents |-> TRUE]
      [] rt \in {"StorageClasses", "ClusterRoles", "GatewayClasses"}
                        -> [Scope |-> "ClusterScoped",   SupportsLogs |-> FALSE, SupportsEvents |-> FALSE]
      [] rt \in {"Pods", "Builds"}
                        -> [Scope |-> "NamespaceScoped", SupportsLogs |-> TRUE,  SupportsEvents |-> TRUE]
      [] rt = "Events"  -> [Scope |-> "NamespaceScoped", SupportsLogs |-> FALSE, SupportsEvents |-> FALSE]
      [] OTHER          -> [Scope |-> "NamespaceScoped", SupportsLogs |-> FALSE, SupportsEvents |-> TRUE]

\* resource types handleSelection offers for the cluster scope
WebClusterResourceTypes(mm) ==
    <<"Nodes", "PersistentVolumes", "StorageClasses", "ClusterRoles">>
    \o (IF mm.isOpenShift THEN <<"Projects">> ELSE << >>)
    \o <<"GatewayClasses">>

\* resource types handleSelection offers for a namespace
WebNamespaceResourceTypes(mm) ==
    <<"Pods", "Services", "Deployments", "ConfigMaps", "Secrets", "Ingress",
      "PersistentVolumeClaims", "ReplicaSets", "DaemonSets", "StatefulSets",
      "Jobs", "CronJobs", "Events">>
    \o (IF mm.isOpenShift
        THEN <<"Routes", "DeploymentConfigs", "BuildConfigs", "Builds", "ImageStreams">>
        ELSE << >>)
    \o <<"Gateways", "HTTPRoutes", "NetworkPolicies", "HorizontalPodAutoscalers">>

\* resource types whose loader asks the cluster; every other loader returns
\* an empty list and no error
WebLoadedTypes ==
    {"Nodes", "Pods", "Services", "Deployments", "Routes", "DeploymentConfigs", "Projects"}

\* the commands are closures over the Model value they were created from
WebLoadKubernetesContexts == [kind |-> "contexts"]
switchKubernetesContext(contextName) == [kind |-> "switch", ctx |-> contextName]
reinitializeClients(contextName)     == [kind |-> "reinit", ctx |-> contextName]
WebLoadNamespaces(mm) == [kind |-> "namespaces"]
WebLoadResources(mm)  == [kind |-> "resources", rt |-> mm.selectedResource,
                          ns |-> IF WebGetResourceInfo(mm.selectedResource).Scope
                                    = "ClusterScoped"
                                 THEN "" ELSE mm.selectedNamespace]
WebLoadLogs(mm)       == [kind |-> "logs", sel |-> mm.selectedK8sResource]
WebLoadEventsCmd(mm)  == [kind |-> "events", sel |-> mm.selectedK8sResource,
                          ns |-> mm.selectedNamespace]

\* main(): the initial Model of the web program
WebInitialModel ==
    [currentView |-> "KubernetesContextView", currentFrame |-> "ContextFrame",
     cursor |-> 0, viewStack |-> << >>,
     logScrollOffset |-> 0, eventScrollOffset |-> 0,
     isMultiFrameMode |-> FALSE,
     kubernetesContexts |-> << >>, namespaces |-> << >>, resourceTypes |-> << >>,
     resources |-> << >>, logEntries |-> << >>, eventEntries |-> << >>,
     selectedKubeContext |-> "", selectedNamespace |-> "", selectedResource |-> "Nodes",
     selectedK8sResource |-> NilResource, selectedScope |-> "ClusterScoped",
     isOpenShift |-> ClusterIsOpenShift,
     height |-> 0, loading |-> TRUE, errorMessage |-> "", autoRefresh |-> TRUE]

\* Model.handleSelection; currentContext is what "kubectl config
\* current-context" prints when the handler runs it
WebHandleSelection(mm, currentContext) ==
    CASE mm.currentView = "KubernetesContextView" ->
           IF Len(mm.kubernetesContexts) > 0 /\ mm.cursor < Len(mm.kubernetesContexts)
           THEN LET contextName == mm.kubernetesContexts[mm.cursor + 1]
                IN IF contextName = currentContext
                   THEN [m |-> [mm EXCEPT !.selectedKubeContext = contextName,
                                          !.viewStack = Append(@, mm.currentView),
                                          !.currentView = "ClusterOrNamespaceView",
                                          !.cursor = 0],
                         cmd |-> NoCmd]
                   ELSE [m |-> [mm EXCEPT !.selectedKubeContext = contextName,
                                          !.loading = TRUE],
                         cmd |-> switchKubernetesContext(contextName)]
           ELSE [m |-> mm, cmd |-> NoCmd]
      [] mm.currentView = "ClusterOrNamespaceView" ->
           IF mm.cursor = 0
           THEN [m |-> [mm EXCEPT !.viewStack = Append(@, mm.currentView),
                                  !.selectedScope = "ClusterScoped",
                                  !.currentView = "ResourceView",
                                  !.resourceTypes = WebClusterResourceTypes(mm),
                                  !.cursor = 0],
                 cmd |-> NoCmd]
           ELSE [m |-> [mm EXCEPT !.viewStack = Append(@, mm.currentView),
                                  !.selectedScope = "NamespaceScoped",
                                  !.currentView = "NamespaceView",
                                  !.loading = TRUE],
                 cmd |-> WebLoadNamespaces(mm)]
      [] mm.currentView = "NamespaceView" ->
           IF Len(mm.namespaces) > 0 /\ mm.cursor < Len(mm.namespaces)
           THEN [m |-> [mm EXCEPT !.selectedNamespace = mm.namespaces[mm.cursor + 1],
                                  !.viewStack = Append(@, mm.currentView),
                                  !.currentView = "ResourceView",
                                  !.cursor = 0,
                                  !.resourceTypes = WebNamespaceResourceTypes(mm)],
                 cmd |-> NoCmd]
           ELSE [m |-> mm, cmd |-> NoCmd]
      [] mm.currentView = "ResourceView" ->
           IF Len(mm.resourceTypes) > 0 /\ mm.cursor < Len(mm.resourceTypes)
           THEN LET m1 == [mm EXCEPT !.selectedResource = mm.resourceTypes[mm.cursor + 1],
                                     !.viewStack = Append(@, mm.currentView),
                                     !.currentView = "DetailView",
                                     !.cursor = 0,
                                     !.loading = TRUE]
                IN [m |-> m1, cmd |-> WebLoadResources(m1)]
           ELSE [m |-> mm, cmd |-> NoCmd]
      [] OTHER -> [m |-> mm, cmd |-> NoCmd]

\* Model.navigateBack of the web program
WebNavigateBack(mm) ==
    IF Len(mm.viewStack) > 0
    THEN [m |-> [mm EXCEPT !.currentView = mm.viewStack[Len(mm.viewStack)],
                           !.viewStack = SubSeq(@, 1, Len(@) - 1),
                           !.cursor = 0,
                           !.logScrollOffset = 0,
                           !.eventScrollOffset = 0,
                           !.errorMessage = ""],
          cmd |-> NoCmd]
    ELSE [m |-> mm, cmd |-> NoCmd]

\* Model.handleKeyPress of the web program, case "up", "k"
WebKeyUp(mm) ==
    IF mm.currentView = "LogView"
    THEN [mm EXCEPT !.logScrollOffset = IF @ > 0 THEN @ - 1 ELSE @]
    ELSE IF mm.currentView = "EventView"
    THEN [mm EXCEPT !.eventScrollOffset = IF @ > 0 THEN @ - 1 ELSE @]
    ELSE [mm EXCEPT !.cursor = IF @ > 0 THEN @ - 1 ELSE @]

\* case "down", "j" (maxScroll is computed as in src/main.go)
WebKeyDown(mm) ==
    IF mm.currentView = "LogView"
    THEN [mm EXCEPT !.logScrollOffset =
              IF @ < maxScroll(Len(mm.logEntries), mm.height) THEN @ + 1 ELSE @]
    ELSE IF mm.currentView = "EventView"
    THEN [mm EXCEPT !.eventScrollOffset =
              IF @ < maxScroll(Len(mm.eventEntries), mm.height) THEN @ + 1 ELSE @]
    ELSE LET limit == CASE mm.currentView = "KubernetesContextView" ->
                                Len(mm.kubernetesContexts) - 1
                        [] mm.currentView = "ClusterOrNamespaceView" -> 1
                        [] mm.currentView = "NamespaceView" -> Len(mm.namespaces) - 1
                        [] mm.currentView = "ResourceView"  -> Len(mm.resourceTypes) - 1
                        [] mm.currentView = "DetailView"    -> Len(mm.resources) - 1
                        [] OTHER -> 0
         IN [mm EXCEPT !.cursor = IF @ < limit THEN @ + 1 ELSE @]

\* case "l": logs open in the multi-frame view
WebKeyLogs(mm) ==
    IF /\ mm.currentView = "DetailView"
       /\ Len(mm.resources) > 0
       /\ mm.cursor < Len(mm.resources)
       /\ WebGetResourceInfo(mm.resources[mm.cursor + 1].ResourceType).SupportsLogs
    THEN LET m1 == [mm EXCEPT !.selectedK8sResource = mm.resources[mm.cursor + 1],
                              !.viewStack = Append(@, mm.currentView),
                              !.currentView = "MultiFrameView",
                              !.currentFrame = "LogFrame",
                              !.isMultiFrameMode = TRUE,
                              !.cursor = 0,
                              !.logScrollOffset = 0,
                              !.loading = TRUE]
         IN [m |-> m1, cmd |-> WebLoadLogs(m1)]
    ELSE [m |-> mm, cmd |-> NoCmd]

\* case "e"
WebKeyEvents(mm) ==
    IF /\ mm.currentView = "DetailView"
       /\ Len(mm.resources) > 0
       /\ mm.cursor < Len(mm.resources)
       /\ WebGetResourceInfo(mm.resources[mm.cursor + 1].ResourceType).SupportsEvents
    THEN LET m1 == [mm EXCEPT !.selectedK8sResource = mm.resources[mm.cursor + 1],
                              !.viewStack = Append(@, mm.currentView),
                              !.currentView = "EventView",
                              !.cursor = 0,
                              !.eventScrollOffset = 0,
                              !.loading = TRUE]
         IN [m |-> m1, cmd |-> WebLoadEventsCmd(m1)]
    ELSE [m |-> mm, cmd |-> NoCmd]

\* case "r"
WebKeyRefresh(mm) ==
    CASE mm.currentView = "NamespaceView" ->
           [m |-> [mm EXCEPT !.loading = TRUE], cmd |-> WebLoadNamespaces(mm)]
      [] mm.currentView = "DetailView" ->
           [m |-> [mm EXCEPT !.loading = TRUE], cmd |-> WebLoadResources(mm)]
      [] mm.currentView = "LogView" ->
           [m |-> [mm EXCEPT !.loading = TRUE], cmd |-> WebLoadLogs(mm)]
      [] mm.currentView = "EventView" ->
           [m |-> [mm EXCEPT !.loading = TRUE], cmd |-> WebLoadEventsCmd(mm)]
      [] OTHER -> [m |-> mm, cmd |-> NoCmd]

\* case "a": switching auto-refresh on starts a timer
WebKeyAutoRefresh(mm) ==
    [m |-> [mm EXCEPT !.autoRefresh = ~@],
     cmd |-> IF ~mm.autoRefresh THEN TickCmd ELSE NoCmd]

\* case "m" (frameWidth and frameHeight are only read when rendering)
WebKeyMultiFrame(mm) ==
    IF mm.currentView = "DetailView"
    THEN [mm EXCEPT !.viewStack = Append(@, mm.currentView),
                    !.currentView = "MultiFrameView",
                    !.isMultiFrameMode = TRUE,
                    !.currentFrame = "ResourceFrame"]
    ELSE mm

\* case "tab"
WebKeyTab(mm) ==
    IF mm.currentView = "MultiFrameView"
    THEN [mm EXCEPT !.currentFrame = CASE @ = "ResourceFrame" -> "LogFrame"
                                       [] @ = "LogFrame"      -> "EventFrame"
                                       [] @ = "EventFrame"    -> "ResourceFrame"
                                       [] OTHER               -> @,
                    !.cursor = 0]
    ELSE mm

WebKeys == {"q", "up", "down", "enter", "esc", "l", "e", "r", "a", "m", "tab"}

\* Model.handleKeyPress of the web program
WebHandleKeyPress(mm, key, currentContext) ==
    CASE key = "q"     -> [m |-> mm, cmd |-> QuitCmd]
      [] key = "up"    -> [m |-> WebKeyUp(mm), cmd |-> NoCmd]
      [] key = "down"  -> [m |-> WebKeyDown(mm), cmd |-> NoCmd]
      [] key = "enter" -> WebHandleSelection(mm, currentContext)
      [] key = "esc"   -> WebNavigateBack(mm)
      [] key = "l"     -> WebKeyLogs(mm)
      [] key = "e"     -> WebKeyEvents(mm)
      [] key = "r"     -> WebKeyRefresh(mm)
      [] key = "a"     -> WebKeyAutoRefresh(mm)
      [] key = "m"     -> [m |-> WebKeyMultiFrame(mm), cmd |-> NoCmd]
      [] key = "tab"   -> [m |-> WebKeyTab(mm), cmd |-> NoCmd]
      [] OTHER         -> [m |-> mm, cmd |-> NoCmd]

\* Model.Update, case clientsReinitializedMsg
onClientsReinitializedMsg(mm, msg) ==
    IF msg.err
    THEN [mm EXCEPT !.loading = FALSE, !.errorMessage = msg.type]
    ELSE [mm EXCEPT !.loading = FALSE,
                    !.isOpenShift = msg.isOpenShift,
                    !.selectedKubeContext = msg.ctx,
                    !.errorMessage = "",
                    !.viewStack = Append(@, mm.currentView),
                    !.currentView = "ClusterOrNamespaceView",
                    !.cursor = 0]

\* Model.Update, case refreshMsg
WebOnRefreshMsg(mm) ==
    IF mm.autoRefresh /\ mm.currentView = "DetailView"
    THEN [m |-> mm, cmd |-> WebLoadResources(mm)]
    ELSE IF mm.autoRefresh /\ mm.currentView = "LogView"
    THEN [m |-> mm, cmd |-> WebLoadLogs(mm)]
    ELSE IF mm.autoRefresh /\ mm.currentView = "EventView"
    THEN [m |-> mm, cmd |-> WebLoadEventsCmd(mm)]
    ELSE [m |-> mm, cmd |-> TickCmd]

\* Model.Update of the web program
WebUpdate(mm, msg, currentContext) ==
    LET m1 == [mm EXCEPT !.loading = FALSE]
        failed == [m1 EXCEPT !.errorMessage = msg.type]
    IN CASE msg.type = "WindowSizeMsg" ->
              [m |-> [mm EXCEPT !.height = msg.height], cmd |-> NoCmd]
         [] msg.type = "KeyMsg" -> WebHandleKeyPress(mm, msg.key, currentContext)
         [] msg.type = "refreshMsg" -> WebOnRefreshMsg(mm)
         [] msg.type = "kubeContextsLoadedMsg" ->
              [m |-> IF msg.err THEN failed
                     ELSE [m1 EXCEPT !.kubernetesContexts = msg.data, !.errorMessage = ""],
               cmd |-> NoCmd]
         [] msg.type = "contextSwitchedMsg" ->
              IF msg.err THEN [m |-> failed, cmd |-> NoCmd]
              ELSE [m |-> m1, cmd |-> reinitializeClients(msg.ctx)]
         [] msg.type = "clientsReinitializedMsg" ->
              [m |-> onClientsReinitializedMsg(mm, msg), cmd |-> NoCmd]
         [] msg.type = "namespacesLoadedMsg" ->
              [m |-> IF msg.err THEN failed
                     ELSE [m1 EXCEPT !.namespaces = msg.data, !.errorMessage = ""],
               cmd |-> NoCmd]
         [] msg.type = "resourcesLoadedMsg" ->
              [m |-> IF msg.err THEN failed
                     ELSE [m1 EXCEPT !.resources = msg.data, !.errorMessage = ""],
               cmd |-> NoCmd]
         [] msg.type = "logsLoadedMsg" ->
              [m |-> IF msg.err THEN failed
                     ELSE [m1 EXCEPT !.logEntries = msg.data, !.errorMessage = ""],
               cmd |-> NoCmd]
         [] msg.type = "eventsLoadedMsg" ->
              [m |-> IF msg.err THEN failed
                     ELSE [m1 EXCEPT !.eventEntries = msg.data, !.errorMessage = ""],
               cmd |-> NoCmd]
         [] OTHER -> [m |-> mm, cmd |-> NoCmd]

\* the three log lines loadLogs fabricates for a pod
PodLogLines == 3

\* the message a command of the web program resolves to
WebResults(c) ==
    CASE c.kind = "contexts" ->
           {[type |-> "kubeContextsLoadedMsg", err |-> TRUE, data |-> << >>],
            [type |-> "kubeContextsLoadedMsg", err |-> FALSE, data |-> KubeContexts]}
      [] c.kind = "switch" ->
           {[type |-> "contextSwitchedMsg", err |-> e, ctx |-> c.ctx] : e \in BOOLEAN}
      [] c.kind = "reinit" ->
           {[type |-> "clientsReinitializedMsg", err |-> e, ctx |-> c.ctx,
             isOpenShift |-> ClusterIsOpenShift] : e \in BOOLEAN}
      [] c.kind = "namespaces" ->
           {[type |-> "namespacesLoadedMsg", err |-> TRUE, data |-> << >>]} \cup
           {[type |-> "namespacesLoadedMsg", err |-> FALSE,
             data |-> SubSeq(ClusterNamespaces, 1, n)] : n \in 0..Len(ClusterNamespaces)}
      [] c.kind = "resources" ->
           IF c.rt \in WebLoadedTypes
           THEN {[type |-> "resourcesLoadedMsg", err |-> TRUE, data |-> << >>]} \cup
                {[type |-> "resourcesLoadedMsg", err |-> FALSE,
                  data |-> ResourceList(c.rt, c.ns, n)] : n \in 0..MaxItems}
           ELSE {[type |-> "resourcesLoadedMsg", err |-> FALSE, data |-> << >>]}
      [] c.kind = "logs" ->
           {[type |-> "logsLoadedMsg", err |-> FALSE,
             data |-> IF c.sel # NilResource /\ c.sel.ResourceType = "Pods"
                      THEN EntryList(c.sel, PodLogLines) ELSE << >>]}
      [] c.kind = "events" ->
           IF c.sel = NilResource
           THEN {[type |-> "eventsLoadedMsg", err |-> FALSE, data |-> << >>]}
           ELSE {[type |-> "eventsLoadedMsg", err |-> TRUE, data |-> << >>]} \cup
                {[type |-> "eventsLoadedMsg", err |-> FALSE,
                  data |-> EntryList(c.sel, n)] : n \in 0..MaxLines}

(***************************************************************************)
(* package ui: text selection with the mouse.  A text is a sequence of     *)
(* character codes; pane is the part of App.state the selection code reads  *)
(* and writes, with DescribeOutput kept as text.                           *)
(***************************************************************************)
Newline == 10
Space   == 32

\* strings.Split(t, "\n")
RECURSIVE SplitLines(_)
SplitLines(t) ==
    IF \E i \in 1..Len(t) : t[i] = Newline
    THEN LET i == CHOOSE k \in 1..Len(t) :
                     t[k] = Newline /\ \A j \in 1..(k - 1) : t[j] # Newline
         IN <<SubSeq(t, 1, i - 1)>> \o SplitLines(SubSeq(t, i + 1, Len(t)))
    ELSE <<t>>

\* strings.Join(ls, "\n")
RECURSIVE JoinLines(_)
JoinLines(ls) ==
    IF Len(ls) = 0 THEN << >>
    ELSE IF Len(ls) = 1 THEN ls[1]
    ELSE ls[1] \o <<Newline>> \o JoinLines(Tail(ls))

\* strings.TrimSpace
TrimSpace(t) ==
    LET ink == {i \in 1..Len(t) : t[i] \notin {Space, Newline}}
    IN IF ink = {} THEN << >>
       ELSE SubSeq(t, CHOOSE i \in ink : \A j \in ink : i <= j,
                      CHOOSE i \in ink : \A j \in ink : i >= j)

\* variants of extractTextFromScrollableView: endX taken as the last selected
\* column instead of the column after it; the scroll offset left out
extractTextInclusive(output, scrollOffset, startX, startY, endX, endY) ==
    IF output = << >> THEN << >>
    ELSE LET lines == SplitLines(output)
             part(idx) ==
                 LET line == lines[idx + 1]
                     screenY == 3 + idx - scrollOffset
                     end == IF endX + 1 > Len(line) THEN Len(line) ELSE endX + 1
                 IN IF ~(screenY >= startY /\ screenY <= endY) THEN << >>
                    ELSE IF startY = endY /\ startY = screenY
                    THEN IF startX < Len(line) /\ startX < end
                         THEN <<SubSeq(line, startX + 1, end)>> ELSE << >>
                    ELSE IF screenY = startY
                    THEN IF startX < Len(line)
                         THEN <<SubSeq(line, startX + 1, Len(line))>> ELSE << >>
                    ELSE IF screenY = endY
                    THEN IF end > 0 THEN <<SubSeq(line, 1, end)>> ELSE << >>
                    ELSE <<line>>
             sels[n \in 0..Len(lines)] ==
                 IF n = 0 THEN << >> ELSE sels[n - 1] \o part(n - 1)
         IN JoinLines(sels[Len(lines)])

extractTextUnscrolled(output, scrollOffset, startX, startY, endX, endY) ==
    IF output = << >> THEN << >>
    ELSE LET lines == SplitLines(output)
             part(idx) ==
                 LET line == lines[idx + 1]
                     screenY == 3 + idx
                     end == IF endX > Len(line) THEN Len(line) ELSE endX
                 IN IF ~(screenY >= startY /\ screenY <= endY) THEN << >>
                    ELSE IF startY = endY /\ startY = screenY
                    THEN IF startX < Len(line) /\ startX < end
                         THEN <<SubSeq(line, startX + 1, end)>> ELSE << >>
                    ELSE IF screenY = startY
                    THEN IF startX < Len(line)
                         THEN <<SubSeq(line, startX + 1, Len(line))>> ELSE << >>
                    ELSE IF screenY = endY
                    THEN IF end > 0 THEN <<SubSeq(line, 1, end)>> ELSE << >>
                    ELSE <<line>>
             sels[n \in 0..Len(lines)] ==
                 IF n = 0 THEN << >> ELSE sels[n - 1] \o part(n - 1)
         IN JoinLines(sels[Len(lines)])

\* a variant of extractTextFromScrollableView whose first row is taken whole
extractTextFirstRowWhole(output, scrollOffset, startX, startY, endX, endY) ==
    IF output = << >> THEN << >>
    ELSE LET lines == SplitLines(output)
             part(idx) ==
                 LET line == lines[idx + 1]
                     screenY == 3 + idx - scrollOffset
                     end == IF endX > Len(line) THEN Len(line) ELSE endX
                 IN IF ~(screenY >= startY /\ screenY <= endY) THEN << >>
                    ELSE IF startY = endY /\ startY = screenY
                    THEN IF startX < Len(line) /\ startX < end
                         THEN <<SubSeq(line, startX + 1, end)>> ELSE << >>
                    ELSE IF screenY = startY
                    THEN IF startX < Len(line)
                         THEN <<line>> ELSE << >>
                    ELSE IF screenY = endY
                    THEN IF end > 0 THEN <<SubSeq(line, 1, end)>> ELSE << >>
                    ELSE <<line>>
             sels[n \in 0..Len(lines)] ==
                 IF n = 0 THEN << >> ELSE sels[n - 1] \o part(n - 1)
         IN JoinLines(sels[Len(lines)])

\* App.extractTextFromScrollableView: the text of output inside the
\* normalized rectangle; viewStartY is 3
extractTextFromScrollableView(output, scrollOffset, startX, startY, endX, endY) ==
    IF output = << >> THEN << >>
    ELSE LET lines == SplitLines(output)
             part(idx) ==
                 LET line == lines[idx + 1]
                     screenY == 3 + idx - scrollOffset
                     end == IF endX > Len(line) THEN Len(line) ELSE endX
                 IN IF ~(screenY >= startY /\ screenY <= endY) THEN << >>
                    ELSE IF startY = endY /\ startY = screenY
                    THEN IF startX < Len(line) /\ startX < end
                         THEN <<SubSeq(line, startX + 1, end)>> ELSE << >>
                    ELSE IF screenY = startY
                    THEN IF startX < Len(line)
                         THEN <<SubSeq(line, startX + 1, Len(line))>> ELSE << >>
                    ELSE IF screenY = endY
                    THEN IF end > 0 THEN <<SubSeq(line, 1, end)>> ELSE << >>
                    ELSE <<line>>
             sels[n \in 0..Len(lines)] ==
                 IF n = 0 THEN << >> ELSE sels[n - 1] \o part(n - 1)
         IN JoinLines(sels[Len(lines)])

\* App.extractTextFromDescribeView: the same statements over DescribeOutput
\* and DescribeScrollOffset
extractTextFromDescribeView(c, startX, startY, endX, endY) ==
    extractTextFromScrollableView(c.DescribeOutput, c.DescribeScrollOffset,
                                  startX, startY, endX, endY)

\* the selection rectangle with start before end, as extractSelectedText
\* normalizes it
NormalizedSelection(c) ==
    IF c.SelectionStartY > c.SelectionEndY
       \/ (c.SelectionStartY = c.SelectionEndY /\ c.SelectionStartX > c.SelectionEndX)
    THEN [startX |-> c.SelectionEndX, startY |-> c.SelectionEndY,
          endX |-> c.SelectionStartX, endY |-> c.SelectionStartY]
    ELSE [startX |-> c.SelectionStartX, startY |-> c.SelectionStartY,
          endX |-> c.SelectionEndX, endY |-> c.SelectionEndY]

\* the lines renderDescribeContent hands to the highlighter: the text from the
\* scroll offset on, in a viewport that is taller than the text
visibleDescribeLines(c) ==
    LET lines == SplitLines(c.DescribeOutput)
        startLine == IF c.DescribeScrollOffset >= Len(lines)
                     THEN Max(0, Len(lines) - 1) ELSE c.DescribeScrollOffset
    IN SubSeq(lines, startLine + 1, Len(lines))

\* App.renderWithSelectionHighlight: for every line of content the part left
\* plain before the selection, the part rendered in the selection style, and
\* the part left plain after it
renderWithSelectionHighlight(c, lines, viewStartY) ==
    LET r == NormalizedSelection(c)
        plain(line) == [before |-> line, selected |-> << >>, after |-> << >>]
        row(i) ==
            LET line == lines[i + 1]
                screenY == viewStartY + i
                selectionEnd == IF r.endX > Len(line) THEN Len(line) ELSE r.endX
            IN IF ~(screenY >= r.startY /\ screenY <= r.endY) THEN plain(line)
               ELSE IF r.startY = r.endY /\ r.startY = screenY
               THEN IF r.startX < Len(line) /\ r.endX > r.startX
                    THEN [before |-> SubSeq(line, 1, r.startX),
                          selected |-> SubSeq(line, r.startX + 1, selectionEnd),
                          after |-> SubSeq(line, selectionEnd + 1, Len(line))]
                    ELSE plain(line)
               ELSE IF screenY = r.startY
               THEN IF r.startX < Len(line)
                    THEN [before |-> SubSeq(line, 1, r.startX),
                          selected |-> SubSeq(line, r.startX + 1, Len(line)),
                          after |-> << >>]
                    ELSE plain(line)
               ELSE IF screenY = r.endY
               THEN IF selectionEnd > 0
                    THEN [before |-> << >>,
                          selected |-> SubSeq(line, 1, selectionEnd),
                          after |-> SubSeq(line, selectionEnd + 1, Len(line))]
                    ELSE plain(line)
               ELSE IF line # << >>
               THEN [before |-> << >>, selected |-> line, after |-> << >>]
               ELSE [before |-> << >>, selected |-> <<Space>>, after |-> << >>]
    IN IF ~c.SelectionActive THEN [i \in 1..Len(lines) |-> plain(lines[i])]
       ELSE [i \in 1..Len(lines) |-> row(i - 1)]

\* the cleanup at the end of extractSelectedText: every line trimmed, blank
\* lines dropped
CleanLines(content) ==
    LET lines == SplitLines(content)
        keep[n \in 0..Len(lines)] ==
            IF n = 0 THEN << >>
            ELSE IF TrimSpace(lines[n]) # << >>
                 THEN Append(keep[n - 1], TrimSpace(lines[n])) ELSE keep[n - 1]
    IN JoinLines(keep[Len(lines)])

\* App.extractSelectedText over the describe pane: the new SelectedText
SelectedTextOf(c) ==
    LET r == NormalizedSelection(c)
    IN IF ~c.SelectionActive THEN << >>
       ELSE IF r.startX < 0 \/ r.startY < 0 \/ r.endX < 0 \/ r.endY < 0 THEN << >>
       ELSE IF r.startX = r.endX /\ r.startY = r.endY THEN << >>
       ELSE IF c.CurrentView = "DescribeView"
       THEN CleanLines(extractTextFromDescribeView(c, r.startX, r.startY, r.endX, r.endY))
       ELSE << >>

\* App.handleMouseEvent, MouseLeft at (x, y): handleMouseClick in a text pane
MouseLeftAt(c, x, y) ==
    IF c.CurrentView \in SelectableViews
    THEN [c EXCEPT !.SelectionActive = TRUE,
                   !.SelectionStartX = x, !.SelectionStartY = y,
                   !.SelectionEndX = x, !.SelectionEndY = y,
                   !.SelectedText = << >>,
                   !.StatusMessage = "Click and drag to select text"]
    ELSE [c EXCEPT !.StatusMessage = "Mouse click at"]

\* App.handleMouseEvent, MouseMotion to (x, y): handleMouseMotion
MouseMotionAt(c, x, y) ==
    IF c.SelectionActive /\ c.CurrentView \in SelectableViews
    THEN LET c1 == [c EXCEPT !.StatusMessage = "Dragging to",
                             !.SelectionEndX = x, !.SelectionEndY = y]
         IN [c1 EXCEPT !.SelectedText = SelectedTextOf(c1)]
    ELSE IF c.SelectionActive THEN [c EXCEPT !.StatusMessage = "Dragging to"] ELSE c

\* App.handleMouseEvent, MouseRelease at (x, y): handleMouseRelease
MouseReleaseAt(c, x, y) ==
    LET c0 == [c EXCEPT !.StatusMessage = "Mouse release at"]
    IN IF c0.SelectionActive
       THEN LET c1 == [c0 EXCEPT !.SelectionEndX = x, !.SelectionEndY = y]
                text == TrimSpace(SelectedTextOf(c1))
            IN IF text = << >>
               THEN [c1 EXCEPT !.SelectedText = << >>, !.SelectionActive = FALSE,
                               !.StatusMessage = "No text selected"]
               ELSE [c1 EXCEPT !.SelectedText = text, !.StatusMessage = "Selected"]
       ELSE c0

\* the selection state of a new App showing the text output in the describe pane
SelectionState(output, scrollOffset) ==
    [CurrentView |-> "DescribeView", DescribeOutput |-> output,
     DescribeScrollOffset |-> scrollOffset,
     SelectionActive |-> FALSE,
     SelectionStartX |-> 0, SelectionStartY |-> 0,
     SelectionEndX |-> 0, SelectionEndY |-> 0,
     SelectedText |-> << >>, StatusMessage |-> "", lastEvent |-> "none"]

NoSelection == SelectionState(<< >>, 0)

(***************************************************************************)
(* The Bubble Tea runtime around src/main.go.                              *)
(***************************************************************************)
IsFetch(cmd) == cmd.kind \notin {"none", "quit", "tick"}

\* one pass of the event loop: Update, then the returned command is started
Run(r, msg, taken) ==
    /\ ~quit
    /\ m' = r.m
    /\ issued' = issued + (IF IsFetch(r.cmd) THEN 1 ELSE 0)
    /\ issued' <= MaxFetches
    /\ inflight' = IF IsFetch(r.cmd)
                   THEN (inflight (-) taken) (+) SetToBag({r.cmd})
                   ELSE inflight (-) taken
    /\ ticks' = ticks - (IF msg.type = "refreshMsg" THEN 1 ELSE 0)
                      + (IF r.cmd = TickCmd THEN 1 ELSE 0)
    /\ quit' = (r.cmd = QuitCmd)
    /\ quitAsked' = (quitAsked \/ (msg.type = "KeyMsg" /\ msg.key = "q"))
    /\ net' = net + (IF msg.type = "KeyMsg" /\ msg.key \in {"enter", "l", "e"}
                        /\ r.m.currentView # m.currentView THEN 1 ELSE 0)
                  - (IF msg.type = "KeyMsg" /\ msg.key = "esc"
                        /\ Len(m.viewStack) > 0 THEN 1 ELSE 0)
    /\ net' <= MaxNet
    /\ UNCHANGED <<a, pane, w, kube, ready>>

MainKey ==
    \E key \in Keys :
        /\ key = "down" =>
              CASE m.currentView = "LogView"   -> m.logScrollOffset <= MaxLines
                [] m.currentView = "EventView" -> m.eventScrollOffset <= MaxLines
                [] OTHER                       -> m.cursor < MaxItems
        /\ LET msg == [type |-> "KeyMsg", key |-> key]
           IN Run(Update(m, msg), msg, EmptyBag)

MainResize ==
    \E h \in Heights :
        LET msg == [type |-> "WindowSizeMsg", height |-> h]
        IN Run(Update(m, msg), msg, EmptyBag)

MainDeliver ==
    \E c \in BagToSet(inflight) : \E msg \in Results(c) :
        Run(Update(m, msg), msg, SetToBag({c}))

MainTick ==
    /\ ticks > 0
    /\ LET msg == [type |-> "refreshMsg"]
       IN Run(Update(m, msg), msg, EmptyBag)

\* Model.Init: one timer is started
InitMain ==
    /\ m = InitialModel
    /\ a = InitialState
    /\ w = WebInitialModel
    /\ kube = KubeContexts[1]
    /\ pane = NoSelection
    /\ inflight = EmptyBag
    /\ ready = EmptyBag
    /\ ticks = 1
    /\ quit = FALSE
    /\ quitAsked = FALSE
    /\ net = 0
    /\ issued = 0

NextMain == MainKey \/ MainResize \/ MainDeliver \/ MainTick

SpecMain == InitMain /\ [][NextMain]_vars

(***************************************************************************)
(* Properties of src/main.go.                                              *)
(***************************************************************************)
LiveViews == {"DetailView", "LogView", "EventView"}

\* C1: a result whose target no longer matches the active target is
\* discarded on delivery: when a resources command issued for another
\* (type, namespace) than the current one is delivered, the resource list of
\* the model does not change.
C1_StaleResultDiscarded ==
    [][\A c \in BagToSet(inflight) :
          (/\ c.kind = "resources"
           /\ c # loadResources(m)
           /\ inflight' = inflight (-) SetToBag({c}))
          => m'.resources = m.resources]_vars

\* C3: the depth of the navigation stack equals the number of forward
\* transitions minus the number of back transitions taken on a non-empty
\* stack.
C3_StackDepth == Len(m.viewStack) = net

\* forwards, a delivered fetch and a back have all happened
C3_Witness ==
    /\ m.currentView = "ResourceView"
    /\ Len(m.viewStack) = 1
    /\ Len(m.resources) > 0
    /\ net = 1

\* C5: a back input on an empty navigation stack never changes the current
\* view: every step that starts and ends with an empty stack, which a back
\* input on an empty stack is, leaves currentView as it was.
C5_BackOnEmptyStack ==
    [][(Len(m.viewStack) = 0 /\ Len(m'.viewStack) = 0)
         => m'.currentView = m.currentView]_vars

\* the stack was emptied again by back inputs
C5_Witness ==
    /\ Len(m.viewStack) = 0
    /\ m.resourceTypes # << >>
    /\ navigateBack(m).m = m

\* C6: the offset a scroll-by-one operation leaves in the log or event pane
\* is between 0 and maxScroll for the line count and height in force.
C6_ScrollBound ==
    /\ m.currentView = "LogView" =>
          /\ keyDown(m).logScrollOffset \in 0..maxScroll(Len(m.logEntries), m.height)
          /\ keyUp(m).logScrollOffset \in 0..maxScroll(Len(m.logEntries), m.height)
    /\ m.currentView = "EventView" =>
          /\ keyDown(m).eventScrollOffset \in 0..maxScroll(Len(m.eventEntries), m.height)
          /\ keyUp(m).eventScrollOffset \in 0..maxScroll(Len(m.eventEntries), m.height)

\* C7: while auto-refresh is on and the current view is a live view the
\* periodic timer keeps firing: a timer is pending.
C7_TimerKeepsFiring ==
    (~quit /\ m.autoRefresh /\ m.currentView \in LiveViews) => ticks > 0

(***************************************************************************)
(* The Bubble Tea runtime around the App.  A command is a method value of  *)
(* the *App: it runs off the update loop and reads App.state when it runs, *)
(* not when it was returned, so it runs (AppExec) against whatever state   *)
(* the loop has reached by then, and its message is delivered later.       *)
(***************************************************************************)
IsAppFetch(cmd) == cmd.kind \in {"fetchResources", "fetchResourceDescription", "fetchPodLogs"}

AppRun(r, msg, taken) ==
    /\ ~quit
    /\ a' = r.a
    /\ issued' = issued + (IF IsAppFetch(r.cmd) THEN 1 ELSE 0)
    /\ issued' <= MaxAppFetches
    /\ inflight' = IF IsAppFetch(r.cmd) \/ r.cmd = SubmitCmd
                   THEN inflight (+) SetToBag({r.cmd}) ELSE inflight
    /\ ready' = ready (-) taken
    /\ ticks' = ticks - (IF msg.type = "TickMsg" THEN 1 ELSE 0)
                      + (IF r.cmd = TickCmd THEN 1 ELSE 0)
    /\ quit' = (r.cmd = QuitCmd)
    /\ quitAsked' =
          IF msg.type = "KeyMsg" /\ a.CurrentView = "FeedbackView"
          THEN IF msg.key = "ctrl+c" /\ ~a.FeedbackSubmitting THEN FALSE ELSE quitAsked
          ELSE quitAsked \/ (msg.type = "KeyMsg" /\ msg.key \in {"q", "ctrl+c"})
    /\ UNCHANGED <<m, w, kube, pane, net>>

AppKey ==
    \E key \in AppKeys, ok \in BOOLEAN :
        /\ key # "esc" => ok
        /\ (key = "down" /\ a.CurrentView = "DescribeView")
              => a.DescribeScrollOffset <= MaxLines
        /\ LET msg == [type |-> "KeyMsg", key |-> key, ok |-> ok]
           IN AppRun(AppUpdate(a, msg), msg, EmptyBag)

\* the mouse is used over the content panes: clicks land on a pane that
\* supports selection, and a button is released after it was pressed
AppMouse ==
    \E ev \in MouseEvents :
        /\ ev = "click" => a.CurrentView \in SelectableViews
        /\ ev # "click" => a.SelectionActive
        /\ ev = "drag" => a.CurrentView = "DescribeView"
        /\ LET msg == [type |-> "MouseMsg", ev |-> ev]
           IN AppRun(AppUpdate(a, msg), msg, EmptyBag)

AppResize ==
    \E h \in Heights :
        LET msg == [type |-> "WindowSizeMsg", height |-> h]
        IN AppRun(AppUpdate(a, msg), msg, EmptyBag)

\* a running command reads the state and finishes with a message
AppExec ==
    \E c \in BagToSet(inflight) : \E msg \in AppResults(a, c) :
        /\ ~quit
        /\ inflight' = inflight (-) SetToBag({c})
        /\ ready' = ready (+) SetToBag({msg})
        /\ UNCHANGED <<m, w, kube, a, pane, ticks, quit, quitAsked, net, issued>>

AppDeliver ==
    \E msg \in BagToSet(ready) :
        AppRun(AppUpdate(a, msg), msg, SetToBag({msg}))

AppTick ==
    /\ ticks > 0
    /\ LET msg == [type |-> "TickMsg"]
       IN AppRun(AppUpdate(a, msg), msg, EmptyBag)

\* App.Init: fetchResources and one timer are started
InitApp ==
    /\ m = InitialModel
    /\ a = InitialState
    /\ w = WebInitialModel
    /\ kube = KubeContexts[1]
    /\ pane = NoSelection
    /\ inflight = SetToBag({FetchResourcesCmd})
    /\ ready = EmptyBag
    /\ ticks = 1
    /\ quit = FALSE
    /\ quitAsked = FALSE
    /\ net = 0
    /\ issued = 1

NextApp == AppKey \/ AppMouse \/ AppResize \/ AppExec \/ AppDeliver \/ AppTick

SpecApp == InitApp /\ [][NextApp]_vars

(***************************************************************************)
(* Properties of the App.                                                  *)
(***************************************************************************)
\* the list fetchResources returns when the provider fails
IsErrorList(rs) == Len(rs) = 1 /\ rs[1].Type = "Error"

\* a list of records the provider returned
IsLoadedList(rs) == Len(rs) > 0 /\ rs[1].Type \notin {"Error", "Info"}

\* C2: when a fetch fails the previously loaded list is left intact: the
\* delivery of the result of a failed fetchResources does not change a
\* loaded resource list.
C2_FailedFetchKeepsList ==
    [][\A msg \in BagToSet(ready) :
          (/\ msg.type = "resourcesMsg"
           /\ IsErrorList(msg.resources)
           /\ IsLoadedList(a.Resources)
           /\ ready' = ready (-) SetToBag({msg}))
          => a'.Resources = a.Resources]_vars

\* C8: after any step that changes the current view the selection is
\* inactive.
C8_SelectionResetOnTransition ==
    [][a'.CurrentView # a.CurrentView => ~a'.SelectionActive]_vars

C10_UnsupportedLogsIgnored ==
    (a.CurrentView = "ResourceView" /\ a.ResourceType # "pods" /\ IsLoadedList(a.Resources))
    => LET r == AppHandleKeyPress(a, "L", TRUE)
       IN /\ r.cmd = NoCmd
          /\ r.a.CurrentView = a.CurrentView
          /\ r.a.ResourceType = a.ResourceType
          /\ r.a.Resources = a.Resources

(***************************************************************************)
(* The Bubble Tea runtime around the web program.  "kubectl config         *)
(* use-context" changes the kubeconfig when the switch command runs, which *)
(* is before its message is delivered.                                     *)
(***************************************************************************)
WebRun(r, msg, rest) ==
    /\ ~quit
    /\ w' = r.m
    /\ issued' = issued + (IF IsFetch(r.cmd) THEN 1 ELSE 0)
    /\ issued' <= MaxWebFetches
    /\ inflight' = IF IsFetch(r.cmd) THEN rest (+) SetToBag({r.cmd}) ELSE rest
    /\ ticks' = ticks - (IF msg.type = "refreshMsg" THEN 1 ELSE 0)
                      + (IF r.cmd = TickCmd THEN 1 ELSE 0)
    /\ ticks' <= MaxTicks
    /\ quit' = (r.cmd = QuitCmd)
    /\ quitAsked' = (quitAsked \/ (msg.type = "KeyMsg" /\ msg.key = "q"))
    /\ UNCHANGED <<m, a, pane, net>>

WebKey ==
    \E key \in WebKeys :
        /\ key = "down" =>
              CASE w.currentView = "LogView"   -> w.logScrollOffset <= MaxLines
                [] w.currentView = "EventView" -> w.eventScrollOffset <= MaxLines
                [] OTHER                       -> w.cursor < MaxItems
        /\ LET msg == [type |-> "KeyMsg", key |-> key]
           IN WebRun(WebUpdate(w, msg, kube), msg, inflight)
        /\ UNCHANGED <<ready, kube>>

WebResize ==
    \E h \in Heights :
        /\ LET msg == [type |-> "WindowSizeMsg", height |-> h]
           IN WebRun(WebUpdate(w, msg, kube), msg, inflight)
        /\ UNCHANGED <<ready, kube>>

\* switchKubernetesContext runs
WebExec ==
    \E c \in BagToSet(inflight) : \E msg \in WebResults(c) :
        /\ ~quit
        /\ c.kind = "switch"
        /\ inflight' = inflight (-) SetToBag({c})
        /\ ready' = ready (+) SetToBag({msg})
        /\ kube' = IF msg.err THEN kube ELSE c.ctx
        /\ UNCHANGED <<m, a, pane, w, ticks, quit, quitAsked, net, issued>>

\* the message of a finished command is handed to Update
WebDeliver ==
    \/ \E c \in BagToSet(inflight) : \E msg \in WebResults(c) :
          /\ c.kind # "switch"
          /\ WebRun(WebUpdate(w, msg, kube), msg, inflight (-) SetToBag({c}))
          /\ UNCHANGED <<ready, kube>>
    \/ \E msg \in BagToSet(ready) :
          /\ WebRun(WebUpdate(w, msg, kube), msg, inflight)
          /\ ready' = ready (-) SetToBag({msg})
          /\ UNCHANGED kube

WebTick ==
    /\ ticks > 0
    /\ LET msg == [type |-> "refreshMsg"]
       IN WebRun(WebUpdate(w, msg, kube), msg, inflight)
    /\ UNCHANGED <<ready, kube>>

\* Model.Init: loadKubernetesContexts and one timer are started
InitWeb ==
    /\ m = InitialModel
    /\ a = InitialState
    /\ w = WebInitialModel
    /\ kube = KubeContexts[1]
    /\ pane = NoSelection
    /\ inflight = SetToBag({WebLoadKubernetesContexts})
    /\ ready = EmptyBag
    /\ ticks = 1
    /\ quit = FALSE
    /\ quitAsked = FALSE
    /\ net = 0
    /\ issued = 1

NextWeb == WebKey \/ WebResize \/ WebExec \/ WebDeliver \/ WebTick

SpecWeb == InitWeb /\ [][NextWeb]_vars

(***************************************************************************)
(* Properties of the web program.                                          *)
(***************************************************************************)
\* C4: at every reachable state, if the navigation stack is non-empty its
\* top element differs from the current view
C4_StackTopIsNotCurrent ==
    Len(w.viewStack) > 0 => w.viewStack[Len(w.viewStack)] # w.currentView

(***************************************************************************)
(* Pagination of the resource table: paginateResources and the page keys   *)
(* applied to a loaded list of every length up to MaxPageItems.            *)
(***************************************************************************)
MaxPageItems == 142

\* a list of n pods, as delivered by a resourcesMsg
LoadedState(n) ==
    [InitialState EXCEPT !.Resources = [i \in 1..n |-> [Name |-> i, Type |-> "Pods"]],
                         !.TotalItems = n,
                         !.TotalPages = GoDiv(n + PageSize - 1, PageSize)]

InitPage ==
    /\ m = InitialModel
    /\ w = WebInitialModel
    /\ kube = KubeContexts[1]
    /\ pane = NoSelection
    /\ a \in {LoadedState(n) : n \in 0..MaxPageItems}
    /\ inflight = EmptyBag
    /\ ready = EmptyBag
    /\ ticks = 1
    /\ quit = FALSE
    /\ quitAsked = FALSE
    /\ net = 0
    /\ issued = 1

PageRight ==
    /\ a.CurrentView = "ResourceView"
    /\ LET msg == [type |-> "KeyMsg", key |-> "right", ok |-> TRUE]
       IN AppRun(AppUpdate(a, msg), msg, EmptyBag)

PageLeft ==
    /\ a.CurrentView = "ResourceView"
    /\ LET msg == [type |-> "KeyMsg", key |-> "left", ok |-> TRUE]
       IN AppRun(AppUpdate(a, msg), msg, EmptyBag)

NextPage == PageRight \/ PageLeft

SpecPage == InitPage /\ [][NextPage]_vars

\* the least k with k * PageSize >= n, and at least 1
CeilPages(n) == CHOOSE k \in 1..(n + 1) : k * PageSize >= n /\ (k = 1 \/ (k - 1) * PageSize < n)

\* C11: a list of 142 records with page size 50 has 3 pages (the ceiling of
\* totalItems / pageSize, at least 1); page 0 has no previous and a next page;
\* advancing twice reaches page 2, which holds 42 items and has no next page
C11_PaginationExample ==
    LET p == paginateResources(a)
        twice == handleRightNavigation(handleRightNavigation(a))
    IN /\ p.TotalPages = CeilPages(Len(a.Resources))
       /\ Len(a.Resources) = 142 =>
            /\ p.TotalPages = 3
            /\ a.CurrentPage = 0 =>
                 /\ ~p.HasPrev /\ p.HasNext
                 /\ twice.CurrentPage = 2
            /\ a.CurrentPage = 2 => Len(p.Items) = 42 /\ ~p.HasNext

C11_Witness ==
    Len(a.Resources) = 142 /\ a.CurrentPage = 2 /\ Len(paginateResources(a).Items) = 42

\* the page of aa, paginated again with the same window
Repaginated(aa) == paginateResources([aa EXCEPT !.Resources = paginateResources(aa).Items])

\* C12: for every list and every page window, slicing the already sliced
\* page with the same window gives the same page
C12_PaginationIdempotent == Repaginated(a).Items = paginateResources(a).Items

\* C12 as amended: slicing the page again is a no-op for the window of page 0;
\* for a later page the second slice is empty
C12_IdempotentOnFirstPage ==
    /\ a.CurrentPage = 0 => Repaginated(a).Items = paginateResources(a).Items
    /\ a.CurrentPage > 0 => Repaginated(a).Items = << >>

C12_Witness ==
    /\ a.CurrentPage = 0
    /\ Len(a.Resources) > PageSize
    /\ Len(Repaginated(a).Items) = PageSize

(***************************************************************************)
(* Text selection: the mouse handlers applied to describe panes showing    *)
(* every text of up to MaxTextLines lines.                                 *)
(***************************************************************************)
MaxTextLines == 2
MaxSelScroll == 1

\* a line of 25 different letters
LongLine == [i \in 1..25 |-> 96 + i]

\* lines a text is made of: empty, blank, plain, padded with spaces, long
SelLines == {<< >>, <<Space, Space>>, <<97, 98>>, <<Space, 97, 98, Space>>, LongLine}

SelTexts ==
    {JoinLines(ls) : ls \in UNION {[1..n -> SelLines] : n \in 1..MaxTextLines}}

\* cells the mouse reports: the columns where the lines begin and end, the
\* rows of the first three lines of text
SelCols == {0, 2, 4, 5, 20, 25}
SelRows == {3, 4, 5}

\* a text of three lines whose middle line is empty
BlankMiddleText == JoinLines(<<<<97, 98>>, << >>, <<Space, 97, 98, Space>>>>)

InitSelect ==
    /\ m = InitialModel
    /\ w = WebInitialModel
    /\ kube = KubeContexts[1]
    /\ a = InitialState
    /\ pane \in {SelectionState(t, s) : t \in SelTexts \cup {BlankMiddleText},
                                        s \in 0..MaxSelScroll}
    /\ inflight = EmptyBag
    /\ ready = EmptyBag
    /\ ticks = 1
    /\ quit = FALSE
    /\ quitAsked = FALSE
    /\ net = 0
    /\ issued = 1

SelClick ==
    \E x \in SelCols, y \in SelRows :
        /\ pane' = [MouseLeftAt(pane, x, y) EXCEPT !.lastEvent = "click"]
        /\ UNCHANGED <<m, w, kube, a, inflight, ready, ticks, quit, quitAsked, net, issued>>

SelMotion ==
    \E x \in SelCols, y \in SelRows :
        /\ pane' = [MouseMotionAt(pane, x, y) EXCEPT !.lastEvent = "motion"]
        /\ UNCHANGED <<m, w, kube, a, inflight, ready, ticks, quit, quitAsked, net, issued>>

SelRelease ==
    \E x \in SelCols, y \in SelRows :
        /\ pane' = [MouseReleaseAt(pane, x, y) EXCEPT !.lastEvent = "release"]
        /\ UNCHANGED <<m, w, kube, a, inflight, ready, ticks, quit, quitAsked, net, issued>>

NextSelect == SelClick \/ SelMotion \/ SelRelease

SpecSelect == InitSelect /\ [][NextSelect]_vars

\* index (from 0) of the logical line shown on screen row y
LineAtRow(c, y) == y - 3 + c.DescribeScrollOffset

\* C13: after a drag whose normalized rectangle covers exactly line i, from
\* column 0 to the end of the line, the extracted text is line i trimmed
C13_SelectionRoundTrip ==
    LET r == NormalizedSelection(pane)
        lines == SplitLines(pane.DescribeOutput)
        i == LineAtRow(pane, r.startY)
    IN (/\ pane.lastEvent = "release"
        /\ r.startY = r.endY
        /\ i \in 0..(Len(lines) - 1)
        /\ r.startX = 0
        /\ r.endX = Len(lines[i + 1]))
       => pane.SelectedText = TrimSpace(lines[i + 1])

C13_Witness ==
    /\ pane.lastEvent = "release"
    /\ pane.DescribeScrollOffset = 1
    /\ pane.SelectionStartX = 4 /\ pane.SelectionEndX = 0
    /\ pane.SelectionStartY = 3 /\ pane.SelectionEndY = 3
    /\ SplitLines(pane.DescribeOutput) = <<LongLine, <<Space, 97, 98, Space>>>>
    /\ pane.SelectedText = <<97, 98>>

\* C14: a selection on one row contributes line[startX:endX] of the logical
\* line shown on that row, endX clamped to the length of the line, and
\* nothing if startX >= endX or startX >= len(line); a drag from (5, 3) to
\* (20, 3) without scroll extracts the characters [5:20) of the line on row 3
C14_SingleRowSelection ==
    LET r == NormalizedSelection(pane)
        lines == SplitLines(pane.DescribeOutput)
        i == LineAtRow(pane, r.startY)
        line == lines[i + 1]
        endX == Min(r.endX, Len(line))
        expected == IF i \in 0..(Len(lines) - 1) /\ r.startX < endX
                    THEN SubSeq(line, r.startX + 1, endX) ELSE << >>
    IN (pane.lastEvent = "motion" /\ pane.SelectionActive /\ r.startY = r.endY)
       => /\ extractTextFromDescribeView(pane, r.startX, r.startY, r.endX, r.endY) = expected
          /\ pane.SelectedText = TrimSpace(expected)
          /\ (r.startX = 5 /\ r.endX = 20 /\ r.startY = 3 /\ pane.DescribeScrollOffset = 0
              /\ lines[1] = LongLine)
               => pane.SelectedText = [k \in 1..15 |-> LongLine[5 + k]]

C14_Witness ==
    /\ pane.lastEvent = "motion"
    /\ pane.SelectionActive
    /\ pane.DescribeScrollOffset = 0
    /\ pane.SelectionStartX = 5 /\ pane.SelectionStartY = 3
    /\ pane.SelectionEndX = 20 /\ pane.SelectionEndY = 3
    /\ pane.SelectedText = [k \in 1..15 |-> 101 + k]

(***************************************************************************)
(* Health annotations of src/main.go: analyzeResourceHealth applied to     *)
(* the resource of a loaded list.                                          *)
(***************************************************************************)
MaxRestarts == 12
Digit0 == 48

\* fmt.Sprintf("%d", n) for n >= 0, as character codes
RECURSIVE FormatInt(_)
FormatInt(n) ==
    IF n < 10 THEN <<Digit0 + n>>
    ELSE FormatInt(n \div 10) \o <<Digit0 + (n % 10)>>

\* strconv.Atoi on an unsigned string: err on the empty string and on a
\* character that is no digit
RECURSIVE Atoi(_)
Atoi(s) ==
    IF Len(s) = 0 THEN [err |-> TRUE, r |-> 0]
    ELSE LET d == s[Len(s)] - Digit0
             rest == IF Len(s) = 1 THEN [err |-> FALSE, r |-> 0]
                     ELSE Atoi(SubSeq(s, 1, Len(s) - 1))
         IN IF d \notin 0..9 \/ rest.err THEN [err |-> TRUE, r |-> 0]
            ELSE [err |-> FALSE, r |-> rest.r * 10 + d]

\* an annotation: a fixed text, followed by the text of a number or by nothing
Annotation(text, arg) == [text |-> text, arg |-> arg]

\* a variant of analyzeResourceHealth for pods that stops at the first rule
\* that matches
analyzeResourceHealthFirstMatch(resource) ==
    LET restarts == resource.Details.Restarts
    IN CASE resource.ResourceType = "Pods" ->
              IF resource.Status = "Failed" \/ resource.Status = "Error"
              THEN [resource EXCEPT !.Errors = <<Annotation("Pod is in failed state", << >>)>>,
                                    !.Warnings = << >>]
              ELSE IF resource.Status = "Pending"
              THEN [resource EXCEPT !.Errors = << >>,
                                    !.Warnings = <<Annotation("Pod is stuck in pending state", << >>)>>]
              ELSE IF restarts # << >> /\ restarts # <<Digit0>>
                      /\ ~Atoi(restarts).err /\ Atoi(restarts).r > 5
              THEN [resource EXCEPT !.Errors = << >>,
                                    !.Warnings = <<Annotation("High restart count: ", restarts)>>]
              ELSE [resource EXCEPT !.Errors = << >>, !.Warnings = << >>]
         [] OTHER -> [resource EXCEPT !.Errors = << >>, !.Warnings = << >>]

\* a variant of analyzeResourceHealth that keeps the annotations the record
\* came with and adds to them
analyzeResourceHealthAppending(resource) ==
    LET fresh == analyzeResourceHealthFirstMatch(resource)
    IN [resource EXCEPT !.Errors = @ \o fresh.Errors, !.Warnings = @ \o fresh.Warnings]

\* Model.analyzeResourceHealth
analyzeResourceHealth(resource) ==
    LET restarts == resource.Details.Restarts
        errors ==
            CASE resource.ResourceType = "Pods" ->
                   IF resource.Status = "Failed" \/ resource.Status = "Error"
                   THEN <<Annotation("Pod is in failed state", << >>)>> ELSE << >>
              [] resource.ResourceType = "Deployments" ->
                   IF resource.Status = "NotReady"
                   THEN <<Annotation("Deployment replicas not ready", << >>)>> ELSE << >>
              [] resource.ResourceType = "Jobs" ->
                   IF resource.Status = "Failed"
                   THEN <<Annotation("Job failed to complete", << >>)>> ELSE << >>
              [] OTHER -> << >>
        warnings ==
            CASE resource.ResourceType = "Pods" ->
                   (IF resource.Status = "Pending"
                    THEN <<Annotation("Pod is stuck in pending state", << >>)>> ELSE << >>)
                   \o (IF restarts # << >> /\ restarts # <<Digit0>>
                          /\ ~Atoi(restarts).err /\ Atoi(restarts).r > 5
                       THEN <<Annotation("High restart count: ", restarts)>> ELSE << >>)
              [] resource.ResourceType = "Services" ->
                   IF resource.Details.Endpoints = <<Digit0>>
                   THEN <<Annotation("Service has no endpoints", << >>)>> ELSE << >>
              [] OTHER -> << >>
    IN [resource EXCEPT !.Errors = errors, !.Warnings = warnings]

\* the resources a load hands over: every kind the rules name and one they
\* do not, in every status a rule tests and one none tests
HealthKinds == {"Pods", "Deployments", "Services", "Jobs", "Nodes"}
HealthStatuses == {"Running", "Failed", "Error", "Pending", "NotReady"}
HealthDetails ==
    [Restarts : {<< >>} \cup {FormatInt(n) : n \in 0..MaxRestarts},
     Endpoints : {<< >>, FormatInt(0), FormatInt(1)}]

LoadedResources ==
    {[Name |-> 1, ResourceType |-> k, Status |-> s, Details |-> d,
      Errors |-> e, Warnings |-> << >>] :
        k \in HealthKinds, s \in HealthStatuses, d \in HealthDetails,
        e \in {<< >>, <<Annotation("Pod is in failed state", << >>)>>}}

InitHealth ==
    /\ m \in {[InitialModel EXCEPT !.resources = <<r>>] : r \in LoadedResources}
    /\ w = WebInitialModel
    /\ kube = KubeContexts[1]
    /\ a = InitialState
    /\ pane = NoSelection
    /\ inflight = EmptyBag
    /\ ready = EmptyBag
    /\ ticks = 1
    /\ quit = FALSE
    /\ quitAsked = FALSE
    /\ net = 0
    /\ issued = 1

AnalyzeHealth ==
    /\ Len(m.resources) > 0
    /\ m' = [m EXCEPT !.resources[1] = analyzeResourceHealth(@)]
    /\ UNCHANGED <<w, kube, a, pane, inflight, ready, ticks, quit, quitAsked, net, issued>>

NextHealth == AnalyzeHealth

SpecHealth == InitHealth /\ [][NextHealth]_vars

DigitKeys == <<"1", "2", "3", "4", "5", "6", "7", "8">>

InitKeys ==
    /\ m = InitialModel
    /\ w = WebInitialModel
    /\ kube = KubeContexts[1]
    /\ a \in UNION {{[InitialState EXCEPT !.Tool = t, !.ResourceType = rt] :
                         rt \in {"pods", "secrets", "events"}} : t \in Tools}
    /\ pane = NoSelection
    /\ inflight = EmptyBag
    /\ ready = EmptyBag
    /\ ticks = 1
    /\ quit = FALSE
    /\ quitAsked = FALSE
    /\ net = 0
    /\ issued = 0

\* the key DigitKeys[k] is pressed
PressDigit(k) ==
    LET msg == [type |-> "KeyMsg", key |-> DigitKeys[k], ok |-> TRUE]
    IN AppRun(AppUpdate(a, msg), msg, EmptyBag)

QuickSelect ==
    \E k \in 1..Len(DigitKeys) :
        /\ a.CurrentView \in {"ResourceView", "HelpView"}
        /\ PressDigit(k)

\* "?" toggles the help view
ToggleHelp ==
    /\ a.CurrentView \in {"ResourceView", "HelpView"}
    /\ LET msg == [type |-> "KeyMsg", key |-> "?", ok |-> TRUE]
       IN AppRun(AppUpdate(a, msg), msg, EmptyBag)

\* backspace is pressed
PressBack ==
    /\ a.CurrentView \in {"ResourceView", "HelpView"}
    /\ LET msg == [type |-> "KeyMsg", key |-> "backspace", ok |-> TRUE]
       IN AppRun(AppUpdate(a, msg), msg, EmptyBag)

NextKeys == QuickSelect \/ ToggleHelp \/ PressBack

SpecKeys == InitKeys /\ [][NextKeys]_vars

\* the resource types valid with each tool: ImageStreams exist with oc only
ValidResourceTypes ==
    [oc      |-> <<"pods", "services", "deployments", "pvc", "is", "secrets", "configmaps", "events">>,
     kubectl |-> <<"pods", "services", "deployments", "pvc", "secrets", "configmaps", "events">>]

\* C16: key k switches to the k-th entry of the list of resource types valid
\* with the tool detected, as that list is at the time of the key press, and
\* starts the fetch of that type
C16_QuickSelectCurrentList ==
    [][\A k \in 1..Len(DigitKeys) :
         (PressDigit(k) /\ k <= Len(ValidResourceTypes[a.Tool]))
         => /\ a'.ResourceType = ValidResourceTypes[a.Tool][k]
            /\ inflight' = inflight (+) SetToBag({FetchResourcesCmd})]_vars

C16_Witness ==
    /\ a.Tool = "kubectl"
    /\ a.ResourceType = "events"
    /\ a.PreviousResource = "secrets"
    /\ BagIn(FetchResourcesCmd, inflight)

\* the resource type the help view and the installation guide give each key
HelpBindings ==
    <<"pods", "services", "deployments", "pvc", "is", "secrets", "configmaps", "events">>

\* C17: the keys 1 to 8 switch to Pods, Services, Deployments, PVC,
\* ImageStreams, Secrets, ConfigMaps and Events, in this order
C17_KeysFollowHelp ==
    [][\A k \in 1..Len(DigitKeys) :
         PressDigit(k) => a'.ResourceType = HelpBindings[k]]_vars

(***************************************************************************)
(* Provider failures in the App.                                           *)
(***************************************************************************)
\* C18: every failed provider call is shown to the user: a failed fetch that
\* is delivered shows as the error row of the list, and a key whose provider
\* call fails leaves a status message; no failure passes without a trace.
C18_FailureSurfaced ==
    /\ \A msg \in BagToSet(ready) :
          (msg.type = "resourcesMsg" /\ IsErrorList(msg.resources))
          => IsErrorList(AppUpdate(a, msg).a.Resources)
    /\ a.CurrentView = "ResourceView"
          => AppHandleKeyPress(a, "esc", FALSE).a.StatusMessage # ""

(***************************************************************************)
(* src/main.go with the commands in flight kept in the order they were     *)
(* issued: inflight is a sequence, oldest first.                           *)
(***************************************************************************)
RemoveAt(s, i) == SubSeq(s, 1, i - 1) \o SubSeq(s, i + 1, Len(s))

\* one pass of the event loop; i: the place in inflight of the command whose
\* result is delivered, 0 if the message is no result
OrderedRun(r, msg, i) ==
    /\ ~quit
    /\ m' = r.m
    /\ issued' = issued + (IF IsFetch(r.cmd) THEN 1 ELSE 0)
    /\ issued' <= MaxFetches
    /\ inflight' = LET rest == IF i = 0 THEN inflight ELSE RemoveAt(inflight, i)
                   IN IF IsFetch(r.cmd) THEN Append(rest, r.cmd) ELSE rest
    /\ ticks' = ticks - (IF msg.type = "refreshMsg" THEN 1 ELSE 0)
                      + (IF r.cmd = TickCmd THEN 1 ELSE 0)
    /\ quit' = (r.cmd = QuitCmd)
    /\ UNCHANGED <<a, pane, w, kube, ready, quitAsked, net>>

OrderedKey ==
    \E key \in Keys :
        /\ key = "down" =>
              CASE m.currentView = "LogView"   -> m.logScrollOffset <= MaxLines
                [] m.currentView = "EventView" -> m.eventScrollOffset <= MaxLines
                [] OTHER                       -> m.cursor < MaxItems
        /\ LET msg == [type |-> "KeyMsg", key |-> key]
           IN OrderedRun(Update(m, msg), msg, 0)

OrderedDeliver ==
    \E i \in 1..Len(inflight) : \E msg \in Results(inflight[i]) :
        OrderedRun(Update(m, msg), msg, i)

OrderedTick ==
    /\ ticks > 0
    /\ LET msg == [type |-> "refreshMsg"]
       IN OrderedRun(Update(m, msg), msg, 0)

InitOrdered ==
    /\ m = InitialModel
    /\ a = InitialState
    /\ w = WebInitialModel
    /\ kube = KubeContexts[1]
    /\ pane = NoSelection
    /\ inflight = << >>
    /\ ready = EmptyBag
    /\ ticks = 1
    /\ quit = FALSE
    /\ quitAsked = FALSE
    /\ net = 0
    /\ issued = 0

NextOrdered == OrderedKey \/ OrderedDeliver \/ OrderedTick

SpecOrdered == InitOrdered /\ [][NextOrdered]_vars

\* C19: a command is superseded by a later command for the same target; the
\* result of a superseded command is ignored when it arrives: it changes
\* nothing in the model.
C19_SupersededResultIgnored ==
    \A i \in 1..Len(inflight), j \in 1..Len(inflight) :
        (i < j /\ inflight[i] = inflight[j])
        => \A msg \in Results(inflight[i]) : Update(m, msg).m = m

(***************************************************************************)
(* Provider calls of the App's key handler.                                *)
(***************************************************************************)
\* C20: no step that handles input calls the provider itself: what a key
\* press does to the state, and the command it returns, do not depend on an
\* answer of the provider.
C20_NoSynchronousProviderCall ==
    \A key \in AppKeys :
        AppHandleKeyPress(a, key, TRUE) = AppHandleKeyPress(a, key, FALSE)

(***************************************************************************)
(* Further properties of the web program.                                  *)
(***************************************************************************)
\* the load command for the data the active frame of the multi-frame view shows
FrameLoad(mm) ==
    CASE mm.currentFrame = "LogFrame"   -> WebLoadLogs(mm)
      [] mm.currentFrame = "EventFrame" -> WebLoadEventsCmd(mm)
      [] OTHER                          -> WebLoadResources(mm)

\* C21: in the multi-frame view the key r refreshes the active frame: it
\* returns the load command for the data that frame shows
C21_RefreshActiveFrame ==
    w.currentView = "MultiFrameView"
    => WebHandleKeyPress(w, "r", kube).cmd = FrameLoad(w)

(***************************************************************************)
(* Further properties of src/main.go.                                      *)
(***************************************************************************)
\* C22: in every state the scroll offset of the log pane and of the event
\* pane lies between 0 and maxScroll for the lines the pane holds and the
\* height of the terminal, also after a reload that brought fewer lines and
\* after a resize.
C22_OffsetWithinBounds ==
    /\ m.logScrollOffset \in 0..maxScroll(Len(m.logEntries), m.height)
    /\ m.eventScrollOffset \in 0..maxScroll(Len(m.eventEntries), m.height)


\* a step of src/main.go that is a forward transition: a view is pushed
ForwardStep == Len(m'.viewStack) = Len(m.viewStack) + 1

\* C23: every forward transition resets the cursor of the view it enters to
\* 0 and the scroll offset of that view to 0.
C23_ForwardResetsCursor ==
    [][ForwardStep
         => /\ m'.cursor = 0
            /\ m'.currentView = "LogView" => m'.logScrollOffset = 0
            /\ m'.currentView = "EventView" => m'.eventScrollOffset = 0]_vars


\* the views of the web program that show data fetched from the cluster
WebDataViews == {"NamespaceView", "DetailView", "LogView", "EventView", "MultiFrameView"}

\* C24: every forward transition of the web program into a view that shows
\* fetched data starts a fetch and sets loading in the same step.
C24_ForwardFetches ==
    [][(Len(w'.viewStack) = Len(w.viewStack) + 1 /\ w'.currentView \in WebDataViews)
         => (w'.loading /\ issued' = issued + 1)]_vars

C26_TimerExemptsOtherViews ==
    m.currentView \notin LiveViews
    => LET r == Update(m, [type |-> "refreshMsg"])
       IN /\ ~IsFetch(r.cmd)
          /\ r.m.cursor = m.cursor
          /\ r.m.logScrollOffset = m.logScrollOffset
          /\ r.m.eventScrollOffset = m.eventScrollOffset
          /\ r.m.namespaces = m.namespaces
          /\ r.m.resources = m.resources
          /\ r.m.logEntries = m.logEntries
          /\ r.m.eventEntries = m.eventEntries

\* a timer is due in the resource type list, with auto-refresh on, the cursor
\* moved and a list loaded earlier
C26_Witness ==
    /\ m.currentView = "ResourceView"
    /\ m.autoRefresh
    /\ ticks > 0
    /\ m.cursor = 1
    /\ Len(m.resources) > 0


\* C27: the resource list changes only when a fetch of resources succeeds,
\* so it stays in place while a fetch is in progress, and a successful fetch
\* replaces it by exactly the records fetched.
C27_StaleWhileRevalidate ==
    [][/\ m'.resources # m.resources
            => \E c \in BagToSet(inflight) :
                  /\ c.kind = "resources"
                  /\ inflight' = inflight (-) SetToBag({c})
                  /\ \E msg \in Results(c) : ~msg.err /\ m'.resources = msg.data
       /\ \A c \in BagToSet(inflight) : \A msg \in Results(c) :
             (/\ c.kind = "resources"
              /\ ~msg.err
              /\ inflight' = inflight (-) SetToBag({c})
              /\ m' = Update(m, msg).m)
             => m'.resources = msg.data]_vars

\* a list is on screen while its reload is in flight
C27_Witness ==
    /\ m.currentView = "DetailView"
    /\ m.loading
    /\ Len(m.resources) > 0
    /\ BagIn(loadResources(m), inflight)
    /\ m.resources[1].ResourceType = m.selectedResource

(***************************************************************************)
(* Selections over several rows.                                           *)
(***************************************************************************)
\* what the rows of a selection over several rows contribute, top to bottom:
\* the first row line[startX:], the last row line[:endX] clamped to the line,
\* a row between them its whole line, or blank if the line is empty
SelectedRows(c, blank) ==
    LET r == NormalizedSelection(c)
        lines == SplitLines(c.DescribeOutput)
        row(idx) ==
            LET line == lines[idx + 1]
                screenY == 3 + idx - c.DescribeScrollOffset
                end == Min(r.endX, Len(line))
            IN CASE screenY < r.startY \/ screenY > r.endY -> << >>
                 [] screenY = r.startY ->
                      IF r.startX < Len(line)
                      THEN <<SubSeq(line, r.startX + 1, Len(line))>> ELSE << >>
                 [] screenY = r.endY ->
                      IF end > 0 THEN <<SubSeq(line, 1, end)>> ELSE << >>
                 [] OTHER -> IF line = << >> THEN <<blank>> ELSE <<line>>
        rows[n \in 0..Len(lines)] ==
            IF n = 0 THEN << >> ELSE rows[n - 1] \o row(n - 1)
    IN rows[Len(lines)]

\* a drag over several rows is in progress
MultiRowDrag ==
    /\ pane.lastEvent = "motion"
    /\ pane.SelectionActive
    /\ NormalizedSelection(pane).startY < NormalizedSelection(pane).endY

\* C28 as stated: the text extracted from a selection over several rows is
\* made of line[startX:] of the first row, line[:endX] of the last row and
\* the whole line of every row between, a single space for an empty line.
C28_MultiRowSelection ==
    LET r == NormalizedSelection(pane)
    IN MultiRowDrag
       => extractTextFromDescribeView(pane, r.startX, r.startY, r.endX, r.endY)
            = JoinLines(SelectedRows(pane, <<Space>>))

\* C28, amended: as above, but an empty line between the first and the last
\* row contributes an empty line to the extracted text; it is the highlight
\* on screen that shows a single space for it.
C28_MultiRowSelectionBlankLines ==
    LET r == NormalizedSelection(pane)
        content == extractTextFromDescribeView(pane, r.startX, r.startY, r.endX, r.endY)
        visible == visibleDescribeLines(pane)
        shown == renderWithSelectionHighlight(pane, visible, 3)
    IN MultiRowDrag
       => /\ content = JoinLines(SelectedRows(pane, << >>))
          /\ pane.SelectedText = CleanLines(content)
          /\ \A i \in 1..Len(visible) :
                (3 + i - 1 > r.startY /\ 3 + i - 1 < r.endY)
                => shown[i].selected = IF visible[i] = << >> THEN <<Space>> ELSE visible[i]

\* rows 3 to 5 of the text with the empty middle line are selected
C28_Witness ==
    /\ MultiRowDrag
    /\ pane.DescribeOutput = BlankMiddleText
    /\ pane.DescribeScrollOffset = 0
    /\ pane.SelectionStartX = 0 /\ pane.SelectionStartY = 3
    /\ pane.SelectionEndX = 4 /\ pane.SelectionEndY = 5
    /\ pane.SelectedText = <<97, 98, Newline, 97, 98>>

(***************************************************************************)
(* Press, drag, release and copy on a describe pane of a sized terminal.   *)
(***************************************************************************)
\* App.handleCopyContent that takes the selection even when it is empty
handleCopyContentSelectionOnly(c) ==
    LET content == c.SelectedText
    IN IF content # << >>
       THEN [c |-> [c EXCEPT !.StatusMessage = "Copied selected text",
                             !.SelectionActive = FALSE, !.SelectedText = << >>],
             content |-> content]
       ELSE [c |-> [c EXCEPT !.StatusMessage = "No content to copy"],
             content |-> << >>]

\* App.handleCopyContent over the describe pane; content is the text handed
\* to createCopyCommand, << >> when no command is returned
handleCopyContentOf(c) ==
    LET bySelection == c.SelectionActive /\ c.SelectedText # << >>
        content == IF bySelection THEN c.SelectedText
                   ELSE IF c.CurrentView = "DescribeView" THEN c.DescribeOutput
                   ELSE << >>
        c1 == IF bySelection THEN [c EXCEPT !.StatusMessage = "Copied selected text"]
              ELSE IF content # << >> THEN [c EXCEPT !.StatusMessage = "Copied"]
              ELSE c
    IN IF content # << >>
       THEN [c |-> [c1 EXCEPT !.SelectionActive = FALSE, !.SelectedText = << >>],
             content |-> content]
       ELSE [c |-> [c1 EXCEPT !.StatusMessage = "No content to copy"],
             content |-> << >>]

\* sizes the terminal reports in a WindowSizeMsg
DragWidths == {5, 21}
DragHeights == {5, 24}

\* cells the mouse reports: some lie outside the smaller terminal
DragCols == {0, 2, 5, 20}
DragRows == {3, 4, 5}

DragTexts ==
    {<< >>, JoinLines(<<<<97, 98>>>>), JoinLines(<<<<97, 98>>, <<Space, 97, 98, Space>>>>),
     BlankMiddleText}

\* the selection state of an App whose terminal is wd columns by ht rows
DragState(output, scrollOffset, wd, ht) ==
    SelectionState(output, scrollOffset) @@ [width |-> wd, height |-> ht,
                                             prevEvent |-> "none"]

InitDrag ==
    /\ m = InitialModel
    /\ w = WebInitialModel
    /\ kube = KubeContexts[1]
    /\ a = InitialState
    /\ pane \in {DragState(t, s, 0, 0) : t \in DragTexts, s \in 0..MaxSelScroll}
    /\ inflight = EmptyBag
    /\ ready = EmptyBag
    /\ ticks = 1
    /\ quit = FALSE
    /\ quitAsked = FALSE
    /\ net = 0
    /\ issued = 1

DragResize ==
    \E wd \in DragWidths, ht \in DragHeights :
        /\ pane' = [pane EXCEPT !.width = wd, !.height = ht, !.lastEvent = "resize",
                              !.prevEvent = pane.lastEvent]
        /\ UNCHANGED <<m, w, kube, a, inflight, ready, ticks, quit, quitAsked, net, issued>>

DragClick ==
    \E x \in DragCols, y \in DragRows :
        /\ pane' = [MouseLeftAt(pane, x, y) EXCEPT !.lastEvent = "click",
                                            !.prevEvent = pane.lastEvent]
        /\ UNCHANGED <<m, w, kube, a, inflight, ready, ticks, quit, quitAsked, net, issued>>

DragMotion ==
    \E x \in DragCols, y \in DragRows :
        /\ pane' = [MouseMotionAt(pane, x, y) EXCEPT !.lastEvent = "motion",
                                              !.prevEvent = pane.lastEvent]
        /\ UNCHANGED <<m, w, kube, a, inflight, ready, ticks, quit, quitAsked, net, issued>>

DragRelease ==
    \E x \in DragCols, y \in DragRows :
        /\ pane' = [MouseReleaseAt(pane, x, y) EXCEPT !.lastEvent = "release",
                                               !.prevEvent = pane.lastEvent]
        /\ UNCHANGED <<m, w, kube, a, inflight, ready, ticks, quit, quitAsked, net, issued>>

\* the key "x"
DragCopy ==
    /\ pane' = [handleCopyContentOf(pane).c EXCEPT !.lastEvent = "copy",
                                            !.prevEvent = pane.lastEvent]
    /\ UNCHANGED <<m, w, kube, a, inflight, ready, ticks, quit, quitAsked, net, issued>>

NextDrag == DragResize \/ DragClick \/ DragMotion \/ DragRelease \/ DragCopy

SpecDrag == InitDrag /\ [][NextDrag]_vars

\* the selection is a single cell
ZeroLength(c) ==
    c.SelectionStartX = c.SelectionEndX /\ c.SelectionStartY = c.SelectionEndY

\* C29: a press followed by a release at the same cell leaves an empty,
\* inactive selection, and a copy from the state such a release leaves takes
\* the whole text of the pane, not a selection
C29_ZeroLengthDragCopiesPane ==
    [][/\ (pane.lastEvent = "click" /\ pane'.lastEvent = "release" /\ ZeroLength(pane'))
          => (/\ pane'.SelectedText = << >>
              /\ ~pane'.SelectionActive
              /\ handleCopyContentOf(pane').content = pane'.DescribeOutput)
       /\ (/\ pane.lastEvent = "release"
           /\ pane.StatusMessage = "No text selected"
           /\ ZeroLength(pane)
           /\ pane'.lastEvent = "copy")
          => (/\ handleCopyContentOf(pane).content = pane.DescribeOutput
              /\ pane'.StatusMessage # "Copied selected text"
              /\ (pane.DescribeOutput # << >> => pane'.StatusMessage = "Copied"))]_vars

C29_Witness ==
    /\ pane.lastEvent = "copy"
    /\ pane.prevEvent = "release"
    /\ pane.StatusMessage = "Copied"
    /\ ZeroLength(pane)
    /\ pane.SelectionStartX = 2 /\ pane.SelectionStartY = 4
    /\ pane.DescribeOutput = BlankMiddleText
    /\ handleCopyContentOf(pane).content = BlankMiddleText

\* the cell (x, y) lies inside the terminal of pane c
InTerminal(c, x, y) == x \in 0..(c.width - 1) /\ y \in 0..(c.height - 1)

\* C30: a press at a cell outside the terminal, made while nothing is being
\* selected, leaves the selection inactive and records no coordinates
C30_PressOutsideRejected ==
    [][\A x \in DragCols, y \in DragRows :
         (/\ ~pane.SelectionActive
          /\ pane.width > 0 /\ pane.height > 0
          /\ ~InTerminal(pane, x, y)
          /\ pane' = [MouseLeftAt(pane, x, y) EXCEPT !.lastEvent = "click",
                                                     !.prevEvent = pane.lastEvent])
         => (/\ ~pane'.SelectionActive
             /\ pane'.SelectionStartX = pane.SelectionStartX
             /\ pane'.SelectionStartY = pane.SelectionStartY
             /\ pane'.SelectionEndX = pane.SelectionEndX
             /\ pane'.SelectionEndY = pane.SelectionEndY)]_vars

\* the fields of a K8sResource that hold what the cluster reported
DataFields == {"Name", "ResourceType", "Status", "Details"}

MaxTableItems == 3

\* App.fetchResources against a provider that returns up to MaxTableItems
\* records
fetchTableResources(aa) ==
    fetchResources(aa) \cup
    {[type |-> "resourcesMsg",
      resources |-> [i \in 1..n |-> [Name |-> i, Type |-> ResourceTypeName(aa.ResourceType)]]]
       : n \in 1..MaxTableItems}

\* App.fetchResourceDescription, with the record the output describes:
\* the command reads SelectedResource when it runs
fetchTableDescription(aa) ==
    {[type |-> "describeMsg", output |-> n, of |-> aa.SelectedResource] : n \in 0..MaxLines}

TableExec ==
    \E c \in BagToSet(inflight) :
      \E msg \in (CASE c = FetchResourcesCmd -> fetchTableResources(a)
                     [] c = DescribeCmd       -> fetchTableDescription(a)
                     [] OTHER                 -> AppResults(a, c)) :
        /\ ~quit
        /\ inflight' = inflight (-) SetToBag({c})
        /\ ready' = ready (+) SetToBag({msg})
        /\ UNCHANGED <<m, w, kube, a, pane, ticks, quit, quitAsked, net, issued>>

\* a result is handed to App.Update; DescribeOf follows DescribeOutput and
\* names the record the stored output describes
TableDeliver ==
    \E msg \in BagToSet(ready) :
        LET r == AppUpdate(a, msg)
        IN AppRun([a |-> IF msg.type = "describeMsg"
                         THEN [r.a EXCEPT !.DescribeOf = msg.of] ELSE r.a,
                   cmd |-> r.cmd], msg, SetToBag({msg}))

\* App.Init: fetchResources and one timer are started; issued counts the
\* fetches the handlers start afterwards
InitTable ==
    /\ m = InitialModel
    /\ a = InitialState @@ [DescribeOf |-> NoResource]
    /\ w = WebInitialModel
    /\ kube = KubeContexts[1]
    /\ pane = NoSelection
    /\ inflight = SetToBag({FetchResourcesCmd})
    /\ ready = EmptyBag
    /\ ticks = 1
    /\ quit = FALSE
    /\ quitAsked = FALSE
    /\ net = 0
    /\ issued = 0

\* the keys that move the selection, reload the list, open a record and leave
TableKeys == {"down", "up", "r", "i", "L", "esc"}

TableKey ==
    \E key \in TableKeys :
        /\ (key = "down" /\ a.CurrentView = "DescribeView")
              => a.DescribeScrollOffset <= MaxLines
        /\ LET msg == [type |-> "KeyMsg", key |-> key, ok |-> TRUE]
           IN AppRun(AppUpdate(a, msg), msg, EmptyBag)

NextTable == TableKey \/ TableExec \/ TableDeliver

SpecTable == InitTable /\ [][NextTable]_vars

\* C32: when the selected index is beyond a list of real records in the
\* resource table, the key i moves the index to the last record and opens
\* the describe view on it
C32_OutOfRangeClampedToLast ==
    LET r == AppHandleKeyPress(a, "i", TRUE)
        n == Len(a.Resources)
    IN (/\ a.CurrentView = "ResourceView"
        /\ IsLoadedList(a.Resources)
        /\ a.SelectedIndex >= n)
       => (/\ r.a.SelectedIndex = n - 1
           /\ r.a.CurrentView = "DescribeView"
           /\ r.a.SelectedResource = a.Resources[n]
           /\ r.cmd = DescribeCmd)

\* the list holds the one record fetchResources makes up for an empty result
IsNoItemsList(rs) == Len(rs) = 1 /\ rs[1].Type = "Info"

TargetCmds(mm) ==
    CASE mm.currentView = "NamespaceView" -> {loadNamespaces(mm)}
      [] mm.currentView = "DetailView"    -> {loadResources(mm)}
      [] mm.currentView = "LogView"       -> {loadLogs(mm)}
      [] mm.currentView = "EventView"     -> {loadEventsCmd(mm)}
      [] OTHER                            -> {}

\* C34: loading is true exactly when a fetch for what the current view shows
\* is outstanding
C34_LoadingIffOutstanding ==
    m.loading <=> (\E c \in TargetCmds(m) : CopiesIn(c, inflight) > 0)

\* number of rows of the list the current view of mm shows (the first view
\* lists the two scopes; the log and event panes have no list)
ListLength(mm) ==
    CASE mm.currentView = "ClusterOrNamespaceView" -> 2
      [] mm.currentView = "NamespaceView"          -> Len(mm.namespaces)
      [] mm.currentView = "ResourceView"           -> Len(mm.resourceTypes)
      [] mm.currentView = "DetailView"             -> Len(mm.resources)
      [] OTHER                                     -> 0

\* C35: the cursor is an index into the list the view shows, and 0 when that
\* list is empty
C35_CursorWithinList ==
    m.cursor \in 0..Max(0, ListLength(m) - 1)

\* C36: the selected row lies on the displayed page
C36_SelectedRowOnPage ==
    /\ a.CurrentPage * PageSize <= a.SelectedIndex
    /\ a.SelectedIndex < (a.CurrentPage + 1) * PageSize

\* C37: at most one refresh timer of the web program is pending
C37_OneTimerPending ==
    ticks <= 1

\* C38: the describe pane shows the loading placeholder (no output stored)
\* or output that describes the record the pane was entered for
C38_PaneShowsOwnRecord ==
    a.CurrentView = "DescribeView"
       => (a.DescribeOutput = 0 \/ a.DescribeOf = a.SelectedResource)

\* the keys that leave the help view
HelpLeaveKeys == {"?", "esc", "backspace"}

\* C39: a step that leaves the help view with ?, Esc or Backspace shows the
\* resource view with the resource type, page, selected index and list it
\* had, and starts no fetch
C39_HelpRoundTrip ==
    [][\A key \in HelpLeaveKeys :
         (/\ a.CurrentView = "HelpView"
          /\ a' = AppHandleKeyPress(a, key, TRUE).a
          /\ a' # a)
         => (/\ a'.CurrentView = "ResourceView"
             /\ a'.ResourceType = a.ResourceType
             /\ a'.CurrentPage = a.CurrentPage
             /\ a'.SelectedIndex = a.SelectedIndex
             /\ a'.Resources = a.Resources
             /\ inflight' = inflight
             /\ issued' = issued)]_vars

(***************************************************************************)
(* The diagram pane: its scroll offset and the slice of lines it renders.  *)
(* DiagramOutput is the number of lines of the text, 0 for the empty text. *)
(***************************************************************************)
MaxSliceLines == 3

\* terminal heights a WindowSizeMsg reports, some below the 10 rows the pane
\* sets aside for titles, borders and padding
SliceHeights == {1, 9, 10, 12}

\* App.getDiagramViewHeight
getDiagramViewHeight(c) == c.height - 8

\* App.getMaxDiagramScroll
getMaxDiagramScroll(c) ==
    IF c.DiagramOutput = 0 THEN 0
    ELSE Max(0, c.DiagramOutput - getDiagramViewHeight(c) + 2)

\* App.scrollDiagramDown
scrollDiagramDown(c) ==
    IF c.DiagramScrollOffset < getMaxDiagramScroll(c)
    THEN [c EXCEPT !.DiagramScrollOffset = @ + 1] ELSE c

\* App.scrollDiagramUp
scrollDiagramUp(c) ==
    IF c.DiagramScrollOffset > 0 THEN [c EXCEPT !.DiagramScrollOffset = @ - 1] ELSE c

\* App.getScrollableDiagramContent: the bounds of lines[startLine:endLine],
\* or the placeholder when there is no text
getScrollableDiagramContent(c) ==
    IF c.DiagramOutput = 0
    THEN [rendered |-> "placeholder", startLine |-> 0, endLine |-> 0]
    ELSE LET n == c.DiagramOutput
             viewHeight == getDiagramViewHeight(c) - 2
             start0 == c.DiagramScrollOffset
             end0 == start0 + viewHeight
             startLine == IF start0 >= n THEN Max(0, n - 1) ELSE start0
             endLine == IF end0 > n THEN n ELSE end0
         IN [rendered |-> "slice", startLine |-> startLine, endLine |-> endLine]

\* the diagram pane of an App that holds a diagram of n lines
DiagramState(n) ==
    [CurrentView |-> "DiagramView", DiagramOutput |-> n, DiagramScrollOffset |-> 0,
     height |-> 0, rendered |-> "none", startLine |-> 0, endLine |-> 0]

InitSlice ==
    /\ m = InitialModel
    /\ w = WebInitialModel
    /\ kube = KubeContexts[1]
    /\ a = InitialState
    /\ pane \in {DiagramState(n) : n \in 0..MaxSliceLines}
    /\ inflight = EmptyBag
    /\ ready = EmptyBag
    /\ ticks = 1
    /\ quit = FALSE
    /\ quitAsked = FALSE
    /\ net = 0
    /\ issued = 1

SliceResize ==
    \E h \in SliceHeights :
        /\ pane' = [pane EXCEPT !.height = h]
        /\ UNCHANGED <<m, w, kube, a, inflight, ready, ticks, quit, quitAsked, net, issued>>

\* the keys j and k in the diagram view
SliceScroll ==
    \E c \in {scrollDiagramDown(pane), scrollDiagramUp(pane)} :
        /\ pane' = c
        /\ UNCHANGED <<m, w, kube, a, inflight, ready, ticks, quit, quitAsked, net, issued>>

\* App.View draws the diagram pane once the terminal has a size
SliceRender ==
    /\ pane.height # 0
    /\ LET r == getScrollableDiagramContent(pane)
       IN pane' = [pane EXCEPT !.rendered = r.rendered,
                               !.startLine = r.startLine, !.endLine = r.endLine]
    /\ UNCHANGED <<m, w, kube, a, inflight, ready, ticks, quit, quitAsked, net, issued>>

NextSlice == SliceResize \/ SliceScroll \/ SliceRender

SpecSlice == InitSlice /\ [][NextSlice]_vars

\* C40: the bounds of the slice a pane renders lie inside its lines, in order
C40_SliceWithinContent ==
    pane.rendered = "slice"
       => (/\ 0 <= pane.startLine
           /\ pane.startLine <= pane.endLine
           /\ pane.endLine <= pane.DiagramOutput)

=============================================================================
